---- MODULE Spec2Model ----
(***************************************************************************)
(* FamilyLifeHub: the external account linking and sync state machine as   *)
(* the web client runs it.  The two connection cards                       *)
(* (GarminConnectionCard, StravaConnectionCard) are modelled handler by    *)
(* handler; every handler is split at its awaits: the part that runs up to *)
(* the request being issued, and the continuation that runs when the       *)
(* response arrives.  The API client (fetchAPI) shapes every response the  *)
(* handlers see.  The backend is not part of the sources; it is modelled   *)
(* from the specification (sections 4 and 6).                              *)
(*                                                                         *)
(* The other pages follow, each with a specification of its own in which   *)
(* the connection cards stay as constructed: the field mapping of the      *)
(* Garmin sync (SpecHealth), HealthMetricForm (SpecForm), login and        *)
(* AuthProvider (SpecLogin), and the dashboard page with its date          *)
(* navigator (SpecDashboard), its settings panel (SpecCards) and the       *)
(* reload of its hidden cards (SpecReload).  Then the return from the      *)
(* Strava authorization (SpecReturn, SpecReturnFair), the session functions*)
(* of lib/api.ts (SpecApi), StravaActivitiesPanel (SpecPanel), formatPace  *)
(* (SpecPace) and the weekly averages of TrendsCard (SpecTrend).           *)
(***************************************************************************)
EXTENDS Integers, Sequences, FiniteSets, Bags, TLC

VARIABLES
    pathname,    \* window.location.pathname
    urlCode,     \* the `code` query parameter of the page URL (Null when absent)
    authToken,   \* localStorage[TOKEN_KEY]
    storedUser,  \* localStorage[USER_KEY]
    garmin,      \* the useState cells of GarminConnectionCard
    strava,      \* the useState cells of StravaConnectionCard
    net,         \* bag of requests in flight (sent, or answered and not yet handled)
    server,      \* backend: connection rows, Strava app config, used codes
    submitted,   \* number of times the URL's code was sent to the callback endpoint
    last,        \* the handler step that ran last (history variable)
    health,      \* backend: one day's HealthMetric row and the day's Garmin report
    dash,        \* DashboardPage with its settings panel, date navigator and requests
    form,        \* HealthMetricForm: its useState cells and the calls of onSubmit
    auth,        \* AuthProvider and the login request
    api,         \* lib/api.ts: the calls of the session functions and of fetchAPI
    panel,       \* StravaActivitiesPanel: its useState cells and its request
    pace,        \* formatPace: an activity and the text shown for it
    trend        \* TrendsCard: a series of days and the change shown for it

\* The state of the two connection cards, and the state of the other pages.
\* `rest` is the state of the components that have a specification of their
\* own and that no action of the cards or of the pages touches.
rest == <<api, panel, pace, trend>>
linkVars == <<urlCode, garmin, strava, net, server, submitted, last, rest>>
sessionVars == <<pathname, authToken, storedUser>>
pages == <<health, dash, form, auth, rest>>
vars == <<pathname, urlCode, authToken, storedUser, garmin, strava, net, server, submitted, last,
          health, dash, form, auth, api, panel, pace, trend>>

(***************************************************************************)
(* Bounds of the model.                                                    *)
(***************************************************************************)
MaxRepeat == 1

(***************************************************************************)
(* Values.  A nullable value is a sequence: <<>> for null, <<v>> for v.    *)
(* A message is a sequence of words, so that String.includes is a search.  *)
(***************************************************************************)
Null == <<>>
Some(v) == <<v>>

\* The components of `rest` are not on screen.
RestClosed ==
    /\ api = Null
    /\ panel = Null
    /\ pace = Null
    /\ trend = Null

Usernames == {"", "user@example.com"}
Passwords == {"", "secret"}
MfaCodes == {"", "123456"}
ClientIds == {"", " ", "12345"}
ClientSecrets == {"", "abcdef"}
AuthCode == "code-1"
\* Timestamps (ISO strings): the time the backend records when a connection is
\* created and when a sync attempt is made (the model does not tell the times
\* of two attempts apart), and a reading of the browser's clock.
Created == "t0"
SyncTime == "t1"
BrowserNow == "now"

GarminPage == "/settings/garmin"
StravaPage == "/settings/strava"
LoginPage == "/login"
StravaSite == "https://www.strava.com/oauth/authorize"

\* String.prototype.includes for one keyword.
Includes(msg, word) == \E i \in 1..Len(msg) : msg[i] = word

\* String.prototype.trim on the values the config form is given.
Trim(s) == IF s = " " THEN "" ELSE s

GarminSyncDays == 7
StravaSyncDays == 30

NotConnectedGarmin ==
    [connected |-> FALSE, garmin_display_name |-> Null, garmin_user_id |-> Null,
     created_at |-> Null, last_sync_at |-> Null, sync_status |-> "not_connected"]

NotConnectedStrava ==
    [connected |-> FALSE, athlete_name |-> Null, athlete_id |-> Null,
     athlete_profile |-> Null, created_at |-> Null, last_sync_at |-> Null,
     sync_status |-> "not_connected"]

(***************************************************************************)
(* Requests and responses.                                                 *)
(***************************************************************************)
NoReply ==
    [status |-> 0, json |-> FALSE, detail |-> Null, conn |-> NotConnectedGarmin,
     has_config |-> FALSE, success |-> FALSE, last_sync_at |-> Null]

Request(kind) ==
    [kind |-> kind, phase |-> "sent", username |-> "", password |-> "",
     mfa_token |-> "", is_cn |-> FALSE, days |-> 0, code |-> "", auto |-> FALSE,
     client_id |-> "", client_secret |-> "", reply |-> NoReply]

OkReply == [NoReply EXCEPT !.status = 200, !.json = TRUE]

\* An error response: HTTP status, and the `detail` of its JSON body
\* (json = FALSE: the body is not JSON; status 0: the fetch itself failed).
ErrorReply(status, json, detail) ==
    [NoReply EXCEPT !.status = status, !.json = json, !.detail = detail]

Send(r) == net (+) SetToBag({r})
Take(r) == net (-) SetToBag({r})
InFlight(kind) ==
    BagCardinality([r \in {x \in BagToSet(net) : x.kind = kind} |-> net[r]])
Answered(kind) == {r \in BagToSet(net) : r.kind = kind /\ r.phase = "replied"}
Pending(kind) == {r \in BagToSet(net) : r.kind = kind /\ r.phase = "sent"}
\* A button that stays enabled while its request is in flight can be pressed
\* again: the model allows MaxRepeat such requests of one kind at a time.
CanRepeat(kind) == InFlight(kind) < MaxRepeat

\* The history variable: the step that ran last, the HTTP status of the response
\* it handled (of NoRequest for a step that handles none), and whether it called
\* onSyncComplete.  The continuation of every handler is recorded by name, and
\* so are the mount effects, handleConnect, handleBackToCredentials, the Unlink
\* buttons and a reload; typing, opening a form, starting another request and the steps of
\* the backend are recorded as "idle".
NoRequest == Request("none")
Step(op, request) ==
    [op |-> op, status |-> request.reply.status, onSyncComplete |-> FALSE]

(***************************************************************************)
(* lib/api.ts: fetchAPI.                                                   *)
(***************************************************************************)
\* response.ok
ResponseOk(reply) == reply.status >= 200 /\ reply.status <= 299

\* The Error fetchAPI throws: `new Error(error.detail || `HTTP ${status}`)`,
\* where a body that is not JSON reads as {detail: 'Unknown error'}; a failed
\* fetch rethrows the TypeError of fetch.  The Error carries a message only.
FetchError(reply) ==
    IF reply.status = 0
    THEN [message |-> <<"Failed", "to", "fetch">>]
    ELSE IF ~reply.json
    THEN [message |-> <<"Unknown", "error">>]
    ELSE IF reply.detail # Null
    THEN [message |-> reply.detail]
    ELSE [message |-> <<"HTTP", ToString(reply.status)>>]

\* err?.status
ErrStatus(err) == IF "status" \in DOMAIN err THEN Some(err.status) ELSE Null

\* clearAuthToken and the redirect of a 401 response.
IsUnauthorized(reply) == reply.status = 401

\* (FetchAPISessionAlwaysRedirects: the same without the test of the pathname.)
\* (FetchAPISessionKeepingUser: the same with a clearAuthToken that removes
\* the token only.)
FetchAPISessionAlwaysRedirects(reply) ==
    IF IsUnauthorized(reply)
    THEN /\ authToken' = Null
         /\ storedUser' = Null
         /\ pathname' = LoginPage
    ELSE UNCHANGED <<authToken, storedUser, pathname>>
FetchAPISessionKeepingUser(reply) ==
    IF IsUnauthorized(reply)
    THEN /\ authToken' = Null
         /\ UNCHANGED storedUser
         /\ pathname' = IF pathname \in {LoginPage, "/register"}
                        THEN pathname ELSE LoginPage
    ELSE UNCHANGED <<authToken, storedUser, pathname>>
FetchAPISession(reply) ==
    IF IsUnauthorized(reply)
    THEN /\ authToken' = Null
         /\ storedUser' = Null
         /\ pathname' = IF pathname \in {LoginPage, "/register"}
                        THEN pathname ELSE LoginPage
    ELSE UNCHANGED <<authToken, storedUser, pathname>>

(***************************************************************************)
(* GarminConnectionCard: state and rendering.                              *)
(***************************************************************************)
GarminConstructed ==
    [connection |-> Null, loading |-> TRUE, syncing |-> FALSE, error |-> Null,
     syncResult |-> Null, showLoginForm |-> FALSE, loginStep |-> "credentials",
     username |-> "", password |-> "", mfaToken |-> "", isCn |-> FALSE,
     connecting |-> FALSE, mounted |-> FALSE]

\* connection?.connected
IsConnected(connection) ==
    /\ connection # Null
    /\ "connected" \in DOMAIN connection[1]
    /\ connection[1].connected

\* The card is on screen with its controls (not the loading spinner).
GarminRendered ==
    /\ pathname = GarminPage
    /\ garmin.mounted
    /\ ~(garmin.loading /\ garmin.connection = Null)

GarminConnectedView == GarminRendered /\ IsConnected(garmin.connection)
GarminFormView(step) ==
    /\ GarminRendered
    /\ ~IsConnected(garmin.connection)
    /\ garmin.showLoginForm
    /\ garmin.loginStep = step
GarminLinkView ==
    GarminRendered /\ ~IsConnected(garmin.connection) /\ ~garmin.showLoginForm

\* disabled={syncing} of the Sync Now and Unlink buttons.
GarminSyncDisabled == garmin.syncing

\* Messages of the card.
InvalidCredentialsGuidance(isCn) ==
    IF isCn
    THEN <<"Invalid credentials for Garmin China.", "https://connect.garmin.cn">>
    ELSE <<"Invalid Garmin credentials.", "https://connect.garmin.com">>
FailedToConnect(errorMsg) == <<"Failed to connect:">> \o errorMsg
InvalidOrExpiredCode(isCn) ==
    <<"Invalid or expired verification code.", IF isCn THEN "zh" ELSE "en">>
Text(text, isCn) == <<text, IF isCn THEN "zh" ELSE "en">>

(***************************************************************************)
(* GarminConnectionCard: handlers.                                         *)
(***************************************************************************)
\* useEffect(() => { fetchConnectionStatus(); }, []) up to its await.
GarminMount ==
    /\ pathname = GarminPage
    /\ authToken # Null
    /\ ~garmin.mounted
    /\ garmin' = [garmin EXCEPT !.mounted = TRUE, !.loading = TRUE]
    /\ net' = Send(Request("garmin_status"))
    /\ UNCHANGED pages
    /\ last' = Step("GarminMount", NoRequest)
    /\ UNCHANGED <<pathname, urlCode, authToken, storedUser, strava, server, submitted>>

\* fetchConnectionStatus after its await.
GarminStatusResponse(r) ==
    /\ pathname = GarminPage
    /\ r \in Answered("garmin_status")
    /\ garmin' =
         IF ResponseOk(r.reply)
         THEN [garmin EXCEPT !.connection = Some(r.reply.conn), !.error = Null,
                             !.loading = FALSE]
         ELSE [garmin EXCEPT
                 !.error = <<"Failed to load Garmin connection status">>,
                 !.loading = FALSE]
    /\ net' = Take(r)
    /\ FetchAPISession(r.reply)
    /\ UNCHANGED pages
    /\ last' = Step("GarminStatusResponse", r)
    /\ UNCHANGED <<urlCode, strava, server, submitted>>

\* onClick={() => setShowLoginForm(true)}, disabled={loading || syncing}.
GarminShowLoginForm ==
    /\ GarminLinkView
    /\ ~(garmin.loading \/ garmin.syncing)
    /\ garmin' = [garmin EXCEPT !.showLoginForm = TRUE]
    /\ UNCHANGED pages
    /\ last' = Step("idle", NoRequest)
    /\ UNCHANGED <<pathname, urlCode, authToken, storedUser, strava, net, server, submitted>>

\* The inputs of StepCredentials, each disabled={connecting}.
GarminEditCredentials ==
    /\ GarminFormView("credentials")
    /\ ~garmin.connecting
    /\ \/ \E v \in Usernames : garmin' = [garmin EXCEPT !.username = v]
       \/ \E v \in Passwords : garmin' = [garmin EXCEPT !.password = v]
       \/ \E v \in BOOLEAN : garmin' = [garmin EXCEPT !.isCn = v]
    /\ garmin' # garmin
    /\ UNCHANGED pages
    /\ last' = Step("idle", NoRequest)
    /\ UNCHANGED <<pathname, urlCode, authToken, storedUser, strava, net, server, submitted>>

\* The input of StepMfa, disabled={connecting}.
GarminEditMfaToken ==
    /\ GarminFormView("mfa")
    /\ ~garmin.connecting
    /\ \E v \in MfaCodes : garmin' = [garmin EXCEPT !.mfaToken = v]
    /\ garmin' # garmin
    /\ UNCHANGED pages
    /\ last' = Step("idle", NoRequest)
    /\ UNCHANGED <<pathname, urlCode, authToken, storedUser, strava, net, server, submitted>>

\* handleSync up to `await syncGarmin(7)`: the state it sets and the request it
\* issues (isCn is the one of the render the caller closed over).
\* (GarminSyncNotFlagged: handleSync as it would be without setSyncing(true).)
GarminSyncNotFlagged(card) == [card EXCEPT !.error = Null, !.syncResult = Null]
GarminSyncStarted(card) ==
    [card EXCEPT !.error = Null, !.syncResult = Null, !.syncing = TRUE]
GarminSyncRequest(isCn, auto) ==
    [Request("garmin_sync") EXCEPT !.days = GarminSyncDays, !.is_cn = isCn,
                                   !.auto = auto]

\* handleCredentialsSubmit up to `await connectGarmin(username, password, undefined, isCn)`.
\* The Next button is disabled={connecting || !username || !password}.
handleCredentialsSubmit ==
    /\ GarminFormView("credentials")
    /\ ~(garmin.connecting \/ garmin.username = "" \/ garmin.password = "")
    /\ garmin' = [garmin EXCEPT !.error = Null, !.connecting = TRUE]
    /\ net' = Send([Request("garmin_connect") EXCEPT
                      !.username = garmin.username, !.password = garmin.password,
                      !.is_cn = garmin.isCn])
    /\ UNCHANGED pages
    /\ last' = Step("idle", NoRequest)
    /\ UNCHANGED <<pathname, urlCode, authToken, storedUser, strava, server, submitted>>

\* handleMfaSubmit up to `await connectGarmin(username, password, mfaToken, isCn)`.
\* The Verify button is disabled={connecting || !mfaToken}.
\* (handleMfaSubmitDefaultRegion: the same leaving isCn to connectGarmin's default.)
handleMfaSubmitDefaultRegion ==
    /\ GarminFormView("mfa")
    /\ ~(garmin.connecting \/ garmin.mfaToken = "")
    /\ garmin' = [garmin EXCEPT !.error = Null, !.connecting = TRUE]
    /\ net' = Send([Request("garmin_connect") EXCEPT
                      !.username = garmin.username, !.password = garmin.password,
                      !.mfa_token = garmin.mfaToken])
    /\ UNCHANGED pages
    /\ last' = Step("idle", NoRequest)
    /\ UNCHANGED <<pathname, urlCode, authToken, storedUser, strava, server, submitted>>
handleMfaSubmit ==
    /\ GarminFormView("mfa")
    /\ ~(garmin.connecting \/ garmin.mfaToken = "")
    /\ garmin' = [garmin EXCEPT !.error = Null, !.connecting = TRUE]
    /\ net' = Send([Request("garmin_connect") EXCEPT
                      !.username = garmin.username, !.password = garmin.password,
                      !.mfa_token = garmin.mfaToken, !.is_cn = garmin.isCn])
    /\ UNCHANGED pages
    /\ last' = Step("idle", NoRequest)
    /\ UNCHANGED <<pathname, urlCode, authToken, storedUser, strava, server, submitted>>

\* handleConnectionSuccess: the state it sets before it calls handleSync.
\* (ConnectionSuccessKeepingForm: the same without the clearing of the fields.)
ConnectionSuccessKeepingForm(card, data) ==
    [card EXCEPT !.connection = Some(data), !.showLoginForm = FALSE,
                 !.loginStep = "credentials"]
ConnectionSuccess(card, data) ==
    [card EXCEPT !.connection = Some(data), !.showLoginForm = FALSE,
                 !.loginStep = "credentials", !.username = "", !.password = "",
                 !.mfaToken = "", !.isCn = FALSE]

\* The test `Check if MFA is required` of handleCredentialsSubmit's catch.
MfaRequired(err) ==
    \/ ErrStatus(err) = Some(400)
    \/ Includes(err.message, "MFA")
    \/ Includes(err.message, "2FA")
    \/ Includes(err.message, "OTP")
    \/ Includes(err.message, "authenticator")

\* The test for invalid credentials of handleCredentialsSubmit's catch.
CredentialsRejected(err) ==
    ErrStatus(err) = Some(401) \/ Includes(err.message, "401")

\* The catch of handleCredentialsSubmit.
CredentialsFailure(card, err, isCn) ==
    IF MfaRequired(err)
    THEN [card EXCEPT !.error = Null, !.loginStep = "mfa"]
    ELSE IF CredentialsRejected(err)
    THEN [card EXCEPT !.error = InvalidCredentialsGuidance(isCn)]
    ELSE [card EXCEPT !.error = FailedToConnect(err.message)]

\* handleCredentialsSubmit after its await: handleConnectionSuccess (which runs
\* handleSync up to its await) or the catch, then `finally`.
CredentialsResponse(r) ==
    /\ pathname = GarminPage
    /\ r \in Answered("garmin_connect")
    /\ r.mfa_token = ""
    /\ IF ResponseOk(r.reply)
       THEN /\ garmin' = [GarminSyncStarted(ConnectionSuccess(garmin, r.reply.conn))
                            EXCEPT !.connecting = FALSE]
            /\ net' = Take(r) (+) SetToBag({GarminSyncRequest(r.is_cn, TRUE)})
       ELSE /\ garmin' = [CredentialsFailure(garmin, FetchError(r.reply), r.is_cn)
                            EXCEPT !.connecting = FALSE]
            /\ net' = Take(r)
    /\ FetchAPISession(r.reply)
    /\ UNCHANGED pages
    /\ last' = Step("CredentialsResponse", r)
    /\ UNCHANGED <<urlCode, strava, server, submitted>>

\* The catch of handleMfaSubmit.
\* (MfaFailureRestarts: a catch that would send the flow back to step 1.)
MfaFailureRestarts(card, err, isCn) ==
    [card EXCEPT !.error = InvalidOrExpiredCode(isCn), !.loginStep = "credentials"]
MfaFailure(card, err, isCn) ==
    IF \/ ErrStatus(err) = Some(401)
       \/ Includes(err.message, "401")
       \/ Includes(err.message, "Invalid")
       \/ Includes(err.message, "expired")
    THEN [card EXCEPT !.error = InvalidOrExpiredCode(isCn)]
    ELSE [card EXCEPT !.error = FailedToConnect(err.message)]

\* handleMfaSubmit after its await.
MfaResponse(r) ==
    /\ pathname = GarminPage
    /\ r \in Answered("garmin_connect")
    /\ r.mfa_token # ""
    /\ IF ResponseOk(r.reply)
       THEN /\ garmin' = [GarminSyncStarted(ConnectionSuccess(garmin, r.reply.conn))
                            EXCEPT !.connecting = FALSE]
            /\ net' = Take(r) (+) SetToBag({GarminSyncRequest(r.is_cn, TRUE)})
       ELSE /\ garmin' = [MfaFailure(garmin, FetchError(r.reply), r.is_cn)
                            EXCEPT !.connecting = FALSE]
            /\ net' = Take(r)
    /\ FetchAPISession(r.reply)
    /\ UNCHANGED pages
    /\ last' = Step("MfaResponse", r)
    /\ UNCHANGED <<urlCode, strava, server, submitted>>

\* handleUnlink up to `await unlinkGarmin()`; `confirmed` is the answer to confirm().
\* The Unlink button is disabled={syncing}.
\* (GarminHandleUnlinkClearingFirst: setError(null) before the prompt.)
GarminHandleUnlinkClearingFirst(confirmed) ==
    /\ GarminConnectedView
    /\ ~GarminSyncDisabled
    /\ garmin' = [garmin EXCEPT !.error = Null]
    /\ IF confirmed
       THEN /\ CanRepeat("garmin_unlink")
            /\ net' = Send([Request("garmin_unlink") EXCEPT !.is_cn = garmin.isCn])
       ELSE UNCHANGED net
    /\ UNCHANGED pages
    /\ last' = Step(IF confirmed THEN "GarminHandleUnlink" ELSE "GarminUnlinkDeclined",
                    NoRequest)
    /\ UNCHANGED <<pathname, urlCode, authToken, storedUser, strava, server, submitted>>
GarminHandleUnlink(confirmed) ==
    /\ GarminConnectedView
    /\ ~GarminSyncDisabled
    /\ IF confirmed
       THEN /\ CanRepeat("garmin_unlink")
            /\ garmin' = [garmin EXCEPT !.error = Null]
            /\ net' = Send([Request("garmin_unlink") EXCEPT !.is_cn = garmin.isCn])
       ELSE UNCHANGED <<garmin, net>>
    /\ UNCHANGED pages
    /\ last' = Step(IF confirmed THEN "GarminHandleUnlink" ELSE "GarminUnlinkDeclined",
                    NoRequest)
    /\ UNCHANGED <<pathname, urlCode, authToken, storedUser, strava, server, submitted>>

\* handleUnlink after its await.
\* (GarminUnlinkedKeepingSync: an unlink that would keep the timestamps.)
GarminUnlinkedKeepingSync(card, isCn) ==
    [card EXCEPT !.connection =
                   Some([NotConnectedGarmin EXCEPT
                           !.last_sync_at = card.connection[1].last_sync_at,
                           !.created_at = card.connection[1].created_at]),
                 !.syncResult = Text("Garmin account unlinked successfully", isCn)]
GarminUnlinked(card, isCn) ==
    [card EXCEPT !.connection = Some(NotConnectedGarmin),
                 !.syncResult = Text("Garmin account unlinked successfully", isCn)]

GarminUnlinkResponse(r) ==
    /\ pathname = GarminPage
    /\ r \in Answered("garmin_unlink")
    /\ garmin' = IF ResponseOk(r.reply)
                 THEN GarminUnlinked(garmin, r.is_cn)
                 ELSE [garmin EXCEPT !.error = <<"Failed to unlink Garmin account">>]
    /\ net' = Take(r)
    /\ FetchAPISession(r.reply)
    /\ UNCHANGED pages
    /\ last' = Step("GarminUnlinkResponse", r)
    /\ UNCHANGED <<urlCode, strava, server, submitted>>

\* handleSync from the Sync Now button, disabled={syncing}.
GarminHandleSync ==
    /\ GarminConnectedView
    /\ ~GarminSyncDisabled
    /\ garmin' = GarminSyncStarted(garmin)
    /\ net' = Send(GarminSyncRequest(garmin.isCn, FALSE))
    /\ UNCHANGED pages
    /\ last' = Step("idle", NoRequest)
    /\ UNCHANGED <<pathname, urlCode, authToken, storedUser, strava, server, submitted>>

\* setConnection((prev) => ({...prev!, last_sync_at: result.last_sync_at || new Date()}))
\* `clientNow` is the reading of the browser's clock.
WithLastSync(connection, result, clientNow) ==
    LET at == IF result.last_sync_at # Null THEN result.last_sync_at
              ELSE Some(clientNow)
    IN  IF connection = Null
        THEN Some([last_sync_at |-> at])
        ELSE Some([connection[1] EXCEPT !.last_sync_at = at])

\* handleSync after its await: the try body on a response, the catch on a
\* rejection, then `finally`.
GarminSynced(card, result, isCn, clientNow) ==
    LET c == [card EXCEPT !.connection = WithLastSync(card.connection, result, clientNow)]
    IN  IF result.success
        THEN [c EXCEPT !.syncResult = Text("Sync complete", isCn), !.syncing = FALSE]
        ELSE [c EXCEPT !.error = Text("Sync completed with errors. Check your data.", isCn),
                       !.syncing = FALSE]

GarminSyncFailed(card, err, isCn) ==
    IF \/ Includes(err.message, "401")
       \/ Includes(err.message, "Unauthorized")
       \/ Includes(err.message, "authentication")
    THEN [card EXCEPT !.error = Text("Authentication failed.", isCn), !.syncing = FALSE]
    ELSE [card EXCEPT !.error = Text("Failed to sync Garmin data. Please try again.", isCn),
                      !.syncing = FALSE]

GarminSyncResponse(r) ==
    /\ pathname = GarminPage
    /\ r \in Answered("garmin_sync")
    /\ garmin' = IF ResponseOk(r.reply)
                 THEN GarminSynced(garmin, r.reply, r.is_cn, BrowserNow)
                 ELSE GarminSyncFailed(garmin, FetchError(r.reply), r.is_cn)
    /\ net' = Take(r)
    /\ FetchAPISession(r.reply)
    /\ UNCHANGED pages
    /\ last' = [Step("GarminSyncResponse", r) EXCEPT
                  !.onSyncComplete = ResponseOk(r.reply) /\ r.reply.success]
    /\ UNCHANGED <<urlCode, strava, server, submitted>>

\* handleCancelLogin (the Cancel button of StepCredentials, disabled={connecting}).
handleCancelLogin ==
    /\ GarminFormView("credentials")
    /\ ~garmin.connecting
    /\ garmin' = [garmin EXCEPT !.showLoginForm = FALSE, !.loginStep = "credentials",
                                !.error = Null, !.username = "", !.password = "",
                                !.mfaToken = ""]
    /\ UNCHANGED pages
    /\ last' = Step("idle", NoRequest)
    /\ UNCHANGED <<pathname, urlCode, authToken, storedUser, strava, net, server, submitted>>

\* handleBackToCredentials (the Back button of StepMfa, disabled={connecting}).
BackToCredentials(card) == [card EXCEPT !.loginStep = "credentials", !.error = Null]

handleBackToCredentials ==
    /\ GarminFormView("mfa")
    /\ ~garmin.connecting
    /\ garmin' = BackToCredentials(garmin)
    /\ UNCHANGED pages
    /\ last' = Step("handleBackToCredentials", NoRequest)
    /\ UNCHANGED <<pathname, urlCode, authToken, storedUser, strava, net, server, submitted>>

(***************************************************************************)
(* The backend, from the specification: the ExternalConnection rows        *)
(* (section 3), the link flows (4.1, 4.2), the sync engine (4.3), the      *)
(* connection status projection (4.4) and the interfaces of section 6.     *)
(***************************************************************************)
ConnectionRow(status, lastSync, created) ==
    [sync_status |-> status, last_sync_at |-> lastSync, created_at |-> created]

\* 4.4: the projection of the persisted row, as the Garmin snapshot.
GarminSnapshot(row) ==
    IF row = Null THEN NotConnectedGarmin
    ELSE [connected |-> TRUE, garmin_display_name |-> Some("Display Name"),
          garmin_user_id |-> Some("garmin-user"), created_at |-> row[1].created_at,
          last_sync_at |-> row[1].last_sync_at, sync_status |-> row[1].sync_status]

Answer(r, reply) == Take(r) (+) SetToBag({[r EXCEPT !.phase = "replied", !.reply = reply]})

\* Failures that are no answer of the link flow: the provider or the backend is
\* unavailable, or the request never arrives.
Unavailable ==
    {ErrorReply(500, TRUE, <<"Garmin", "service", "unavailable">>),
     ErrorReply(0, FALSE, Null)}

\* 4.1/7: MfaRequired, InvalidCredentials, InvalidOrExpiredMfaCode.
MfaRequiredReplies ==
    {ErrorReply(400, TRUE, <<"MFA", "required">>),
     ErrorReply(400, TRUE, <<"Verification", "code", "required">>)}
InvalidCredentialsReplies ==
    {ErrorReply(401, TRUE, <<"Invalid", "Garmin", "credentials">>),
     ErrorReply(401, TRUE, Null)}
InvalidMfaCodeReplies ==
    {ErrorReply(401, TRUE, <<"Invalid", "MFA", "code">>),
     ErrorReply(400, TRUE, <<"Verification", "failed">>)}

ServerGarminStatus(r) ==
    /\ r \in Pending("garmin_status")
    /\ \E reply \in {[OkReply EXCEPT !.conn = GarminSnapshot(server.garmin)],
                     ErrorReply(500, FALSE, Null)} :
          net' = Answer(r, reply)
    /\ UNCHANGED pages
    /\ last' = Step("idle", NoRequest)
    /\ UNCHANGED <<pathname, urlCode, authToken, storedUser, garmin, strava, server, submitted>>

\* 4.1: the Garmin link flow.  Success persists the connection row.
ServerGarminConnect(r) ==
    /\ r \in Pending("garmin_connect")
    /\ \/ \E row \in {Some(ConnectionRow("connected", Null, Some(Created)))} :
            /\ server' = [server EXCEPT !.garmin = row]
            /\ net' = Answer(r, [OkReply EXCEPT !.conn = GarminSnapshot(row)])
       \/ /\ \E reply \in (IF r.mfa_token = ""
                           THEN MfaRequiredReplies \cup InvalidCredentialsReplies
                           ELSE InvalidMfaCodeReplies) \cup Unavailable :
               net' = Answer(r, reply)
          /\ UNCHANGED server
    /\ UNCHANGED pages
    /\ last' = Step("idle", NoRequest)
    /\ UNCHANGED <<pathname, urlCode, authToken, storedUser, garmin, strava, submitted>>

\* 4.3: one sync attempt.  Every attempt on a linked account updates the row's
\* sync_status and last_sync_at; an account that is not linked is refused.
SyncOutcomes ==
    {[status |-> "connected", reply |-> [OkReply EXCEPT !.success = TRUE]],
     [status |-> "error", reply |-> [OkReply EXCEPT !.success = FALSE]],
     [status |-> "expired", reply |-> [OkReply EXCEPT !.success = FALSE]],
     [status |-> "error", reply |-> ErrorReply(500, TRUE, <<"Sync", "failed">>)]}

ServerGarminSync(r) ==
    /\ r \in Pending("garmin_sync")
    /\ IF server.garmin = Null
       THEN /\ net' = Answer(r, ErrorReply(400, TRUE, <<"Garmin", "not", "connected">>))
            /\ UNCHANGED server
       ELSE \E o \in SyncOutcomes :
                 LET at == Some(SyncTime)
                 IN  /\ server' = [server EXCEPT
                           !.garmin = Some(ConnectionRow(o.status, at,
                                                         server.garmin[1].created_at))]
                     /\ net' = Answer(r, IF ResponseOk(o.reply)
                                         THEN [o.reply EXCEPT !.last_sync_at = at]
                                         ELSE o.reply)
    /\ UNCHANGED pages
    /\ last' = Step("idle", NoRequest)
    /\ UNCHANGED <<pathname, urlCode, authToken, storedUser, garmin, strava, submitted>>

\* 6: unlink deletes the row; unlinking twice is a no-op success.
ServerGarminUnlink(r) ==
    /\ r \in Pending("garmin_unlink")
    /\ \/ /\ server' = [server EXCEPT !.garmin = Null]
          /\ net' = Answer(r, OkReply)
       \/ /\ net' = Answer(r, ErrorReply(0, FALSE, Null))
          /\ UNCHANGED server
    /\ UNCHANGED pages
    /\ last' = Step("idle", NoRequest)
    /\ UNCHANGED <<pathname, urlCode, authToken, storedUser, garmin, strava, submitted>>

(***************************************************************************)
(* StravaConnectionCard.                                                   *)
(***************************************************************************)
StravaConstructed ==
    [connection |-> Null, hasConfig |-> FALSE, loading |-> TRUE, syncing |-> FALSE,
     savingConfig |-> FALSE, showConfigForm |-> FALSE, error |-> Null,
     syncResult |-> Null, clientId |-> "", clientSecret |-> "", mounted |-> FALSE]

\* The card is on screen with its controls (not the loading spinner).
StravaRendered ==
    /\ pathname = StravaPage
    /\ strava.mounted
    /\ ~(strava.loading /\ strava.connection = Null)

StravaConnectedView == StravaRendered /\ IsConnected(strava.connection)
StravaConfigFormView ==
    StravaRendered /\ ~IsConnected(strava.connection) /\ strava.showConfigForm
StravaLinkView ==
    StravaRendered /\ ~IsConnected(strava.connection) /\ ~strava.showConfigForm

\* disabled={syncing} of the Sync Now and Unlink buttons.
StravaSyncDisabled == strava.syncing

\* disabled={loading || syncing || !hasConfig} of Connect Strava Account.
\* (ConnectDisabledWhileBusy: the button as it would be without `!hasConfig`.)
ConnectDisabledWhileBusy == strava.loading \/ strava.syncing
StravaConnectDisabled == strava.loading \/ strava.syncing \/ ~strava.hasConfig

\* handleSync up to `await syncStrava(30)`.
StravaSyncStarted(card) ==
    [card EXCEPT !.error = Null, !.syncResult = Null, !.syncing = TRUE]
\* (StravaSyncRequestWeek: a sync request for the window of the Garmin card.)
StravaSyncRequestWeek(auto) ==
    [Request("strava_sync") EXCEPT !.days = GarminSyncDays, !.auto = auto]
StravaSyncRequest(auto) ==
    [Request("strava_sync") EXCEPT !.days = StravaSyncDays, !.auto = auto]

\* handleStravaCallback of the mount effect: the code of the URL, removed from
\* the URL (history.replaceState) before handleCallback sends it.
\* (UrlKept: the URL as it would be without the replaceState.)
UrlKept(code) == Some(code)
UrlAfterCallback(code) == Null

\* The mount effect: fetchConnectionStatus up to its await, then
\* handleStravaCallback, which runs handleCallback up to its await.
StravaMount ==
    /\ pathname = StravaPage
    /\ authToken # Null
    /\ ~strava.mounted
    /\ strava' = [strava EXCEPT !.mounted = TRUE, !.loading = TRUE]
    /\ IF urlCode # Null
       THEN /\ urlCode' = UrlAfterCallback(urlCode)
            /\ net' = Send(Request("strava_status")) (+)
                      SetToBag({[Request("strava_callback") EXCEPT !.code = urlCode[1]]})
            /\ submitted' = submitted + 1
       ELSE /\ net' = Send(Request("strava_status"))
            /\ UNCHANGED <<urlCode, submitted>>
    /\ UNCHANGED pages
    /\ last' = Step("StravaMount", NoRequest)
    /\ UNCHANGED <<pathname, authToken, storedUser, garmin, server>>

\* fetchConnectionStatus after `await Promise.all([getStravaConnection(), getStravaConfig()])`.
StravaStatusResponse(r) ==
    /\ pathname = StravaPage
    /\ r \in Answered("strava_status")
    /\ strava' =
         IF ResponseOk(r.reply)
         THEN [strava EXCEPT !.connection = Some(r.reply.conn),
                             !.hasConfig = r.reply.has_config, !.error = Null,
                             !.loading = FALSE]
         ELSE [strava EXCEPT
                 !.error = <<"Failed to load Strava connection status">>,
                 !.loading = FALSE]
    /\ net' = Take(r)
    /\ FetchAPISession(r.reply)
    /\ UNCHANGED pages
    /\ last' = Step("StravaStatusResponse", r)
    /\ UNCHANGED <<urlCode, garmin, server, submitted>>

\* handleCallback after `await stravaCallback(code)`: on success it runs handleSync
\* up to its await (its `finally` runs when that sync has ended); on failure the
\* catch, then `finally`.
CallbackSucceeded(card, data) == StravaSyncStarted([card EXCEPT !.connection = Some(data)])
CallbackFailed(card, err) ==
    [card EXCEPT !.error = <<"Connection failed:">> \o err.message, !.loading = FALSE]

StravaCallbackResponse(r) ==
    /\ pathname = StravaPage
    /\ r \in Answered("strava_callback")
    /\ IF ResponseOk(r.reply)
       THEN /\ strava' = CallbackSucceeded(strava, r.reply.conn)
            /\ net' = Take(r) (+) SetToBag({StravaSyncRequest(TRUE)})
       ELSE /\ strava' = CallbackFailed(strava, FetchError(r.reply))
            /\ net' = Take(r)
    /\ FetchAPISession(r.reply)
    /\ UNCHANGED pages
    /\ last' = Step("StravaCallbackResponse", r)
    /\ UNCHANGED <<urlCode, garmin, server, submitted>>

\* handleSync from the Sync Now button, disabled={syncing}.
StravaHandleSync ==
    /\ StravaConnectedView
    /\ ~StravaSyncDisabled
    /\ strava' = StravaSyncStarted(strava)
    /\ net' = Send(StravaSyncRequest(FALSE))
    /\ UNCHANGED pages
    /\ last' = Step("idle", NoRequest)
    /\ UNCHANGED <<pathname, urlCode, authToken, storedUser, garmin, server,
                   submitted>>

\* handleSync after its await; when handleCallback awaited it (auto), the
\* `finally` of handleCallback follows.
StravaSynced(card, result, clientNow) ==
    LET c == [card EXCEPT !.connection = WithLastSync(card.connection, result, clientNow)]
    IN  IF result.success
        THEN [c EXCEPT !.syncResult = <<"Sync complete">>, !.syncing = FALSE]
        ELSE [c EXCEPT !.error = <<"Sync completed with errors. Check your data.">>,
                       !.syncing = FALSE]

\* (StravaSyncFailedStillSyncing: the catch without the `finally`.)
StravaSyncFailedStillSyncing(card) ==
    [card EXCEPT !.error = <<"Failed to sync Strava data. Please try again.">>]
StravaSyncFailed(card) ==
    [card EXCEPT !.error = <<"Failed to sync Strava data. Please try again.">>,
                 !.syncing = FALSE]

StravaSyncResponse(r) ==
    /\ pathname = StravaPage
    /\ r \in Answered("strava_sync")
    /\ \E card \in {IF ResponseOk(r.reply)
                    THEN StravaSynced(strava, r.reply, BrowserNow)
                    ELSE StravaSyncFailed(strava)} :
          strava' = IF r.auto THEN [card EXCEPT !.loading = FALSE] ELSE card
    /\ net' = Take(r)
    /\ FetchAPISession(r.reply)
    /\ UNCHANGED pages
    /\ last' = [Step("StravaSyncResponse", r) EXCEPT
                  !.onSyncComplete = ResponseOk(r.reply) /\ r.reply.success]
    /\ UNCHANGED <<urlCode, garmin, server, submitted>>

\* handleUnlink up to `await unlinkStrava()`; `confirmed` is the answer to confirm().
StravaHandleUnlink(confirmed) ==
    /\ StravaConnectedView
    /\ ~StravaSyncDisabled
    /\ IF confirmed
       THEN /\ CanRepeat("strava_unlink")
            /\ strava' = [strava EXCEPT !.error = Null]
            /\ net' = Send(Request("strava_unlink"))
       ELSE UNCHANGED <<strava, net>>
    /\ UNCHANGED pages
    /\ last' = Step(IF confirmed THEN "StravaHandleUnlink" ELSE "StravaUnlinkDeclined",
                    NoRequest)
    /\ UNCHANGED <<pathname, urlCode, authToken, storedUser, garmin, server,
                   submitted>>

\* handleUnlink after its await.
StravaUnlinked(card) ==
    [card EXCEPT !.connection = Some(NotConnectedStrava),
                 !.syncResult = <<"Strava account unlinked successfully">>]

StravaUnlinkResponse(r) ==
    /\ pathname = StravaPage
    /\ r \in Answered("strava_unlink")
    /\ strava' = IF ResponseOk(r.reply)
                 THEN StravaUnlinked(strava)
                 ELSE [strava EXCEPT !.error = <<"Failed to unlink Strava account">>]
    /\ net' = Take(r)
    /\ FetchAPISession(r.reply)
    /\ UNCHANGED pages
    /\ last' = Step("StravaUnlinkResponse", r)
    /\ UNCHANGED <<urlCode, garmin, server, submitted>>

\* setShowConfigForm(true): the Edit button (shown when hasConfig), or Configure
\* App Credentials (shown when !hasConfig, disabled={loading || savingConfig}).
StravaShowConfigForm ==
    /\ StravaLinkView
    /\ strava.hasConfig \/ ~(strava.loading \/ strava.savingConfig)
    /\ strava' = [strava EXCEPT !.showConfigForm = TRUE]
    /\ UNCHANGED pages
    /\ last' = Step("idle", NoRequest)
    /\ UNCHANGED <<pathname, urlCode, authToken, storedUser, garmin, net, server, submitted>>

\* The inputs of the config form, each disabled={savingConfig}.
StravaEditConfig ==
    /\ StravaConfigFormView
    /\ ~strava.savingConfig
    /\ \/ \E v \in ClientIds : strava' = [strava EXCEPT !.clientId = v]
       \/ \E v \in ClientSecrets : strava' = [strava EXCEPT !.clientSecret = v]
    /\ strava' # strava
    /\ UNCHANGED pages
    /\ last' = Step("idle", NoRequest)
    /\ UNCHANGED <<pathname, urlCode, authToken, storedUser, garmin, net, server, submitted>>

\* The Cancel button of the config form.
StravaCancelConfig ==
    /\ StravaConfigFormView
    /\ strava' = [strava EXCEPT !.showConfigForm = FALSE, !.clientId = "",
                                !.clientSecret = ""]
    /\ UNCHANGED pages
    /\ last' = Step("idle", NoRequest)
    /\ UNCHANGED <<pathname, urlCode, authToken, storedUser, garmin, net, server, submitted>>

\* The check of handleSaveConfig: !clientId.trim() || !clientSecret.trim().
ConfigIncomplete(clientId, clientSecret) == Trim(clientId) = "" \/ Trim(clientSecret) = ""

\* handleSaveConfig up to `await saveStravaConfig(...)`.  The form submits only
\* when both `required` inputs hold a value; the button is disabled={savingConfig}.
handleSaveConfig ==
    /\ StravaConfigFormView
    /\ ~strava.savingConfig
    /\ strava.clientId # "" /\ strava.clientSecret # ""
    /\ IF ConfigIncomplete(strava.clientId, strava.clientSecret)
       THEN /\ strava' = [strava EXCEPT
                            !.error = <<"Please enter both Client ID and Client Secret">>]
            /\ net' = net
       ELSE /\ strava' = [strava EXCEPT !.error = Null, !.savingConfig = TRUE]
            /\ net' = Send([Request("strava_config") EXCEPT
                              !.client_id = Trim(strava.clientId),
                              !.client_secret = Trim(strava.clientSecret)])
    /\ UNCHANGED pages
    /\ last' = Step("idle", NoRequest)
    /\ UNCHANGED <<pathname, urlCode, authToken, storedUser, garmin, server,
                   submitted>>

\* handleSaveConfig after its await.
StravaSaveConfigResponse(r) ==
    /\ pathname = StravaPage
    /\ r \in Answered("strava_config")
    /\ strava' =
         IF ResponseOk(r.reply)
         THEN [strava EXCEPT !.hasConfig = TRUE, !.showConfigForm = FALSE,
                 !.syncResult = <<"Strava app credentials saved successfully">>,
                 !.clientId = "", !.clientSecret = "", !.savingConfig = FALSE]
         ELSE [strava EXCEPT
                 !.error = <<"Failed to save:">> \o FetchError(r.reply).message,
                 !.savingConfig = FALSE]
    /\ net' = Take(r)
    /\ FetchAPISession(r.reply)
    /\ UNCHANGED pages
    /\ last' = Step("StravaSaveConfigResponse", r)
    /\ UNCHANGED <<urlCode, garmin, server, submitted>>

\* handleConnect up to `await getStravaAuthUrl(redirectUri)`.
handleConnect ==
    /\ StravaLinkView
    /\ ~StravaConnectDisabled
    /\ CanRepeat("strava_authorize")
    /\ strava' = [strava EXCEPT !.error = Null]
    /\ net' = Send(Request("strava_authorize"))
    /\ UNCHANGED pages
    /\ last' = Step("handleConnect", NoRequest)
    /\ UNCHANGED <<pathname, urlCode, authToken, storedUser, garmin, server,
                   submitted>>

\* handleConnect after its await: window.location.href = authorization_url, or
\* the catch.
StravaAuthUrlResponse(r) ==
    /\ pathname = StravaPage
    /\ r \in Answered("strava_authorize")
    /\ IF ResponseOk(r.reply)
       THEN /\ pathname' = StravaSite
            /\ UNCHANGED <<strava, authToken, storedUser>>
       ELSE /\ strava' = [strava EXCEPT !.error = FailedToConnect(FetchError(r.reply).message)]
            /\ FetchAPISession(r.reply)
    /\ net' = Take(r)
    /\ UNCHANGED pages
    /\ last' = Step("StravaAuthUrlResponse", r)
    /\ UNCHANGED <<urlCode, garmin, server, submitted>>

\* The user reloads the Strava page: a new component instance, whose mount
\* effect runs again; the responses of the old page are never handled.
Reload ==
    /\ pathname = StravaPage
    /\ garmin' = GarminConstructed
    /\ strava' = StravaConstructed
    /\ net' = EmptyBag
    /\ UNCHANGED pages
    /\ last' = Step("Reload", NoRequest)
    /\ UNCHANGED <<pathname, urlCode, authToken, storedUser, server, submitted>>

\* 4.4: the projection of the persisted row, as the Strava snapshot.
StravaSnapshot(row) ==
    IF row = Null THEN NotConnectedStrava
    ELSE [connected |-> TRUE, athlete_name |-> Some("Athlete"), athlete_id |-> Some("1"),
          athlete_profile |-> Some("profile"), created_at |-> row[1].created_at,
          last_sync_at |-> row[1].last_sync_at, sync_status |-> row[1].sync_status]

ServerStravaStatus(r) ==
    /\ r \in Pending("strava_status")
    /\ \E reply \in {[OkReply EXCEPT !.conn = StravaSnapshot(server.strava),
                                     !.has_config = server.stravaConfig],
                     ErrorReply(500, FALSE, Null)} :
          net' = Answer(r, reply)
    /\ UNCHANGED pages
    /\ last' = Step("idle", NoRequest)
    /\ UNCHANGED <<pathname, urlCode, authToken, storedUser, garmin, strava, server, submitted>>

\* 4.2: the per-user application credentials.
ServerStravaConfig(r) ==
    /\ r \in Pending("strava_config")
    /\ \/ /\ server' = [server EXCEPT !.stravaConfig = TRUE]
          /\ net' = Answer(r, OkReply)
       \/ /\ net' = Answer(r, ErrorReply(500, TRUE, <<"Internal", "Server", "Error">>))
          /\ UNCHANGED server
    /\ UNCHANGED pages
    /\ last' = Step("idle", NoRequest)
    /\ UNCHANGED <<pathname, urlCode, authToken, storedUser, garmin, strava,
                   submitted>>

\* 4.2, step 1: an authorization URL needs the stored app credentials.
ServerStravaAuthorize(r) ==
    /\ r \in Pending("strava_authorize")
    /\ net' = Answer(r, IF server.stravaConfig THEN OkReply
                        ELSE ErrorReply(400, TRUE, <<"Strava", "app", "not", "configured">>))
    /\ UNCHANGED pages
    /\ last' = Step("idle", NoRequest)
    /\ UNCHANGED <<pathname, urlCode, authToken, storedUser, garmin, strava, server, submitted>>

\* 4.2, step 2: the code exchange.  A code is single-use: a replayed code fails.
ServerStravaCallback(r) ==
    /\ r \in Pending("strava_callback")
    /\ IF r.code \in server.usedCodes
       THEN /\ net' = Answer(r, ErrorReply(400, TRUE, <<"Authorization", "code", "already", "used">>))
            /\ UNCHANGED server
       ELSE \/ \E row \in {Some(ConnectionRow("connected", Null, Some(Created)))} :
                 /\ server' = [server EXCEPT !.strava = row,
                                             !.usedCodes = @ \cup {r.code}]
                 /\ net' = Answer(r, [OkReply EXCEPT !.conn = StravaSnapshot(row)])
            \/ /\ net' = Answer(r, ErrorReply(400, TRUE, <<"Invalid", "authorization", "code">>))
               /\ UNCHANGED server
    /\ UNCHANGED pages
    /\ last' = Step("idle", NoRequest)
    /\ UNCHANGED <<pathname, urlCode, authToken, storedUser, garmin, strava,
                   submitted>>

ServerStravaSync(r) ==
    /\ r \in Pending("strava_sync")
    /\ IF server.strava = Null
       THEN /\ net' = Answer(r, ErrorReply(400, TRUE, <<"Strava", "not", "connected">>))
            /\ UNCHANGED server
       ELSE \E o \in SyncOutcomes :
                 LET at == Some(SyncTime)
                 IN  /\ server' = [server EXCEPT
                           !.strava = Some(ConnectionRow(o.status, at,
                                                         server.strava[1].created_at))]
                     /\ net' = Answer(r, IF ResponseOk(o.reply)
                                         THEN [o.reply EXCEPT !.last_sync_at = at]
                                         ELSE o.reply)
    /\ UNCHANGED pages
    /\ last' = Step("idle", NoRequest)
    /\ UNCHANGED <<pathname, urlCode, authToken, storedUser, garmin, strava,
                   submitted>>

ServerStravaUnlink(r) ==
    /\ r \in Pending("strava_unlink")
    /\ \/ /\ server' = [server EXCEPT !.strava = Null]
          /\ net' = Answer(r, OkReply)
       \/ /\ net' = Answer(r, ErrorReply(0, FALSE, Null))
          /\ UNCHANGED server
    /\ UNCHANGED pages
    /\ last' = Step("idle", NoRequest)
    /\ UNCHANGED <<pathname, urlCode, authToken, storedUser, garmin, strava,
                   submitted>>

(***************************************************************************)
(* The system.                                                             *)
(***************************************************************************)
\* The backend when the page is opened: each provider linked earlier or not,
\* the Strava app credentials stored or not.
ServerInit ==
    [garmin |-> Null, strava |-> Null, stravaConfig |-> FALSE, usedCodes |-> {}]

LinkedBefore == Some(ConnectionRow("connected", Null, Some(Created)))

\* The browser has opened the page of one of the two cards, logged in.  The
\* URL of the Strava page carries an authorization code when the browser comes
\* back from the authorization page, which the card opens for an account that
\* is not linked and whose app credentials are stored.
Init ==
    /\ pathname \in {GarminPage, StravaPage}
    /\ urlCode \in IF pathname = StravaPage THEN {Null, Some(AuthCode)} ELSE {Null}
    /\ authToken = Some("token")
    /\ storedUser = Some("user")
    /\ garmin = GarminConstructed
    /\ strava = StravaConstructed
    /\ net = EmptyBag
    /\ server \in IF pathname = GarminPage
                  THEN {ServerInit, [ServerInit EXCEPT !.garmin = LinkedBefore]}
                  ELSE IF urlCode # Null
                  THEN {[ServerInit EXCEPT !.stravaConfig = TRUE]}
                  ELSE {[ServerInit EXCEPT !.strava = row, !.stravaConfig = cfg] :
                          row \in {Null, LinkedBefore}, cfg \in BOOLEAN}
    /\ submitted = 0
    /\ last = Step("construct", NoRequest)
    /\ health = Null
    /\ dash = Null
    /\ form = Null
    /\ auth = Null
    /\ RestClosed

GarminNext ==
    \/ GarminMount
    \/ \E r \in BagToSet(net) : GarminStatusResponse(r)
    \/ GarminShowLoginForm
    \/ GarminEditCredentials
    \/ GarminEditMfaToken
    \/ handleCredentialsSubmit
    \/ \E r \in BagToSet(net) : CredentialsResponse(r)
    \/ handleMfaSubmit
    \/ \E r \in BagToSet(net) : MfaResponse(r)
    \/ \E confirmed \in BOOLEAN : GarminHandleUnlink(confirmed)
    \/ \E r \in BagToSet(net) : GarminUnlinkResponse(r)
    \/ GarminHandleSync
    \/ \E r \in BagToSet(net) : GarminSyncResponse(r)
    \/ handleCancelLogin
    \/ handleBackToCredentials
    \/ \E r \in BagToSet(net) : ServerGarminStatus(r)
    \/ \E r \in BagToSet(net) : ServerGarminConnect(r)
    \/ \E r \in BagToSet(net) : ServerGarminSync(r)
    \/ \E r \in BagToSet(net) : ServerGarminUnlink(r)

StravaNext ==
    \/ StravaMount
    \/ \E r \in BagToSet(net) : StravaStatusResponse(r)
    \/ \E r \in BagToSet(net) : StravaCallbackResponse(r)
    \/ StravaHandleSync
    \/ \E r \in BagToSet(net) : StravaSyncResponse(r)
    \/ \E confirmed \in BOOLEAN : StravaHandleUnlink(confirmed)
    \/ \E r \in BagToSet(net) : StravaUnlinkResponse(r)
    \/ StravaShowConfigForm
    \/ StravaEditConfig
    \/ StravaCancelConfig
    \/ handleSaveConfig
    \/ \E r \in BagToSet(net) : StravaSaveConfigResponse(r)
    \/ handleConnect
    \/ \E r \in BagToSet(net) : StravaAuthUrlResponse(r)
    \/ \E r \in BagToSet(net) : ServerStravaStatus(r)
    \/ \E r \in BagToSet(net) : ServerStravaConfig(r)
    \/ \E r \in BagToSet(net) : ServerStravaAuthorize(r)
    \/ \E r \in BagToSet(net) : ServerStravaCallback(r)
    \/ \E r \in BagToSet(net) : ServerStravaSync(r)
    \/ \E r \in BagToSet(net) : ServerStravaUnlink(r)

Next == GarminNext \/ StravaNext \/ Reload

Spec == Init /\ [][Next]_vars

(***************************************************************************)
(* Properties of the link flows.                                           *)
(***************************************************************************)
\* The sync requests of a card that are in flight, and what they ask for.
SyncRequests(kind) == {r \in BagToSet(net) : r.kind = kind}

\* C1: a first Garmin connect attempt (no MFA code) that the server answers
\* MFA-required (HTTP 400) moves the flow to the MFA step, shows no error,
\* records no connection and starts no sync.
C1_MfaRequiredMovesToMfaStep ==
    (last.op = "CredentialsResponse" /\ last.status = 400) =>
        /\ garmin.loginStep = "mfa"
        /\ garmin.error = Null
        /\ ~IsConnected(garmin.connection)
        /\ InFlight("garmin_sync") = 0

\* C2: a first Garmin connect attempt rejected with HTTP 401 stays on the
\* credentials step and shows the invalid-credentials guidance of the selected
\* region (never the MFA step, never the generic 'Failed to connect').
C2_RejectedCredentialsShowGuidance ==
    (last.op = "CredentialsResponse" /\ last.status = 401) =>
        /\ garmin.loginStep = "credentials"
        /\ garmin.error = InvalidCredentialsGuidance(garmin.isCn)

C4_ConnectStartsOneSync ==
    (last.op \in {"CredentialsResponse", "MfaResponse"}) =>
        IF ResponseOk(last)
        THEN /\ InFlight("garmin_sync") = 1
             /\ \A r \in SyncRequests("garmin_sync") : r.days = 7 /\ r.phase = "sent"
             /\ IsConnected(garmin.connection)
             /\ garmin.syncing
             /\ GarminSyncDisabled
        ELSE InFlight("garmin_sync") = 0

\* A connect with an MFA code has succeeded and its sync is in flight.
C4_ConnectedAndSyncing ==
    /\ last.op = "MfaResponse"
    /\ ResponseOk(last)
    /\ InFlight("garmin_sync") = 1
    /\ garmin.syncing

\* C5: for each card at most one sync request is in flight at any time.
C5_AtMostOneSyncInFlight ==
    /\ InFlight("garmin_sync") <= 1
    /\ InFlight("strava_sync") <= 1

\* C6: when the continuation of a sync call has run, the card's cached
\* sync_status and last_sync_at equal those of the server's connection record.
C6_CacheEqualsServerAfterSync ==
    /\ (last.op = "GarminSyncResponse" /\ garmin.connection # Null) =>
          /\ garmin.connection[1].sync_status = GarminSnapshot(server.garmin).sync_status
          /\ garmin.connection[1].last_sync_at = GarminSnapshot(server.garmin).last_sync_at
    /\ (last.op = "StravaSyncResponse" /\ strava.connection # Null) =>
          /\ strava.connection[1].sync_status = StravaSnapshot(server.strava).sync_status
          /\ strava.connection[1].last_sync_at = StravaSnapshot(server.strava).last_sync_at

\* C7: the authorization code of the URL is sent to the callback endpoint at
\* most once, reloads included: while an exchange is in flight the URL holds no
\* code, and when the continuation of a failed exchange has run the error is set
\* and no exchange is in flight.
C7_CodeSubmittedAtMostOnce ==
    /\ submitted <= 1
    /\ InFlight("strava_callback") <= 1
    /\ (InFlight("strava_callback") > 0 \/ submitted > 0) => urlCode = Null
    /\ (last.op = "StravaCallbackResponse" /\ ~ResponseOk(last)) =>
          /\ strava.error # Null
          /\ InFlight("strava_callback") = 0

\* The page was reloaded after the code was submitted: the mount effect has
\* run again and has sent the status request only.
C7_RemountedAfterSubmission ==
    /\ last.op = "StravaMount"
    /\ submitted = 1
    /\ InFlight("strava_callback") = 0
    /\ InFlight("strava_status") = 1

\* C8: the continuation of a successful Strava code exchange issues exactly one
\* sync request, for 30 days; the continuation of a failed exchange issues none
\* and leaves the card's connection unchanged.
C8_ExchangeStartsOneSync ==
    [][(last'.op = "StravaCallbackResponse") =>
          IF ResponseOk(last')
          THEN /\ InFlight("strava_sync")' = InFlight("strava_sync") + 1
               /\ \A r \in SyncRequests("strava_sync")' : r.days = 30
               /\ \E r \in SyncRequests("strava_sync")' : r.phase = "sent" /\ r.auto
               /\ IsConnected(strava'.connection)
          ELSE /\ InFlight("strava_sync")' = InFlight("strava_sync")
               /\ strava'.connection = strava.connection]_vars

\* A code exchange has succeeded and its sync is in flight.
C8_ExchangedAndSyncing ==
    /\ last.op = "StravaCallbackResponse"
    /\ ResponseOk(last)
    /\ InFlight("strava_sync") = 1
    /\ strava.syncing

\* C9: handleConnect requests an authorization URL only when hasConfig is true,
\* and hasConfig turns true only in the continuation of a status fetch that
\* reports stored credentials, or of a successful saveStravaConfig whose client
\* id and client secret were not empty.
C9_AuthUrlNeedsConfig ==
    [][/\ (last'.op = "handleConnect" \/
           InFlight("strava_authorize")' > InFlight("strava_authorize")) =>
            strava.hasConfig
       /\ (~strava.hasConfig /\ strava'.hasConfig) =>
            \/ \E r \in Answered("strava_status") :
                  /\ net' = Take(r)
                  /\ ResponseOk(r.reply)
                  /\ r.reply.has_config
            \/ \E r \in Answered("strava_config") :
                  /\ net' = Take(r)
                  /\ ResponseOk(r.reply)
                  /\ r.client_id # "" /\ r.client_id # " "
                  /\ r.client_secret # "" /\ r.client_secret # " "]_vars

\* The credentials were saved through the form, and handleConnect has
\* requested an authorization URL.
C9_AuthUrlRequestedAfterSave ==
    /\ last.op = "handleConnect"
    /\ InFlight("strava_authorize") > 0
    /\ strava.hasConfig
    /\ strava.syncResult = <<"Strava app credentials saved successfully">>

C11_PasswordOnlyInOpenForm ==
    /\ (~garmin.showLoginForm \/ IsConnected(garmin.connection)) =>
          /\ garmin.username = ""
          /\ garmin.password = ""
          /\ garmin.mfaToken = ""
    /\ authToken \in {Null, Some("token")}
    /\ storedUser \in {Null, Some("user")}

\* A link has succeeded with a typed password: the form is closed and empty.
C11_LinkedFormCleared ==
    /\ last.op \in {"CredentialsResponse", "MfaResponse"}
    /\ ResponseOk(last)
    /\ ~garmin.showLoginForm
    /\ garmin.password = ""

\* C18: when the continuation of a failed Garmin link attempt has run, the
\* session is untouched: the stored token and user are present and the browser
\* is still on the Garmin page.
C18_FailedLinkKeepsSession ==
    (last.op \in {"CredentialsResponse", "MfaResponse"} /\ ~ResponseOk(last)) =>
        /\ authToken = Some("token")
        /\ storedUser = Some("user")
        /\ pathname = GarminPage

\* C20: when the continuation of the status fetch has run after the code
\* exchange of the same page load succeeded (the server holds the connection
\* and no exchange is in flight), the card shows a connected snapshot.
C20_StatusKeepsExchangedConnection ==
    (/\ last.op = "StravaStatusResponse"
     /\ ResponseOk(last)
     /\ server.strava # Null
     /\ InFlight("strava_callback") = 0) =>
        IsConnected(strava.connection)

(***************************************************************************)
(* The connection cards are not on screen in the specifications of the     *)
(* other pages: their state stays as constructed.                          *)
(***************************************************************************)
LinkCardsClosed ==
    /\ RestClosed
    /\ urlCode = Null
    /\ garmin = GarminConstructed
    /\ strava = StravaConstructed
    /\ net = EmptyBag
    /\ server = ServerInit
    /\ submitted = 0
    /\ last = Step("construct", NoRequest)

LoggedIn ==
    /\ authToken = Some("token")
    /\ storedUser = Some("user")

(***************************************************************************)
(* Garmin sync: the field mapping of the sync endpoint (docs/SETUP.md,     *)
(* Task 16).  health_data is the day's HealthMetric record, daily_data the *)
(* day's report of the Garmin API: a dict, a key of which may be missing   *)
(* or carry None.                                                          *)
(***************************************************************************)
MaxManual == 2
MaxReported == 2

HealthFields ==
    {"steps", "calories", "distance_km", "body_battery", "spo2",
     "respiration_rate", "resting_hr", "sleep_score"}

\* The key of daily_data each field is read from.
GarminKey(field) ==
    CASE field = "distance_km" -> "distance"
      [] field = "respiration_rate" -> "respiration"
      [] field = "resting_hr" -> "resting_heart_rate"
      [] OTHER -> field

GarminKeys == {GarminKey(f) : f \in HealthFields}

\* Values entered by hand (distance in km), and values Garmin reports
\* (distance in metres).
ManualValues == {5}
ReportedValues == {3000}

\* dict.get(key, default)
DictGet(d, key, default) == IF key \in DOMAIN d THEN d[key] ELSE default

\* A day's record with no field set.
EmptyMetric == [f \in HealthFields |-> Null]

HealthConstructed ==
    [health_data |-> EmptyMetric, daily_data |-> <<>>, synced |-> FALSE,
     raised |-> FALSE]

\* A value is recorded for a field of the day's record (manual entry).
ManualEntry(field, value) ==
    /\ ~health.synced
    /\ health.health_data[field] = Null
    /\ Cardinality({f \in HealthFields : health.health_data[f] # Null}) < MaxManual
    /\ health' = [health EXCEPT !.health_data[field] = Some(value)]
    /\ UNCHANGED <<sessionVars, linkVars, dash, form, auth>>

\* The Garmin API reports a key for the day, with a value or with None.
GarminReports(key, value) ==
    /\ ~health.synced
    /\ key \notin DOMAIN health.daily_data
    /\ Cardinality(DOMAIN health.daily_data) < MaxReported
    /\ health' = [health EXCEPT !.daily_data =
                     [k \in DOMAIN health.daily_data \cup {key} |->
                        IF k = key THEN value ELSE health.daily_data[k]]]
    /\ UNCHANGED <<sessionVars, linkVars, dash, form, auth>>

\* `daily_data.get('distance', 0) / 1000` raises TypeError on None.
DistanceRaises(daily_data) == DictGet(daily_data, "distance", Some(0)) = Null

\* The dict the mapping passes to health_data.update.
GarminFieldMapping(daily_data) ==
    [f \in HealthFields |->
        IF f = "distance_km"
        THEN Some(DictGet(daily_data, "distance", Some(0))[1] \div 1000)
        ELSE DictGet(daily_data, GarminKey(f), Null)]

\* dict.update: every key of the argument is written.
DictUpdate(d, arg) == [f \in DOMAIN d |-> IF f \in DOMAIN arg THEN arg[f] ELSE d[f]]

GarminSyncDay ==
    /\ ~health.synced
    /\ health' = IF DistanceRaises(health.daily_data)
                 THEN [health EXCEPT !.synced = TRUE, !.raised = TRUE]
                 ELSE [health EXCEPT
                         !.synced = TRUE,
                         !.health_data =
                             DictUpdate(@, GarminFieldMapping(health.daily_data))]
    /\ UNCHANGED <<sessionVars, linkVars, dash, form, auth>>

HealthInit ==
    /\ pathname = "/"
    /\ LoggedIn
    /\ LinkCardsClosed
    /\ health = HealthConstructed
    /\ dash = Null
    /\ form = Null
    /\ auth = Null

HealthNext ==
    \/ \E f \in HealthFields, v \in ManualValues : ManualEntry(f, v)
    \/ \E k \in GarminKeys, v \in {Null} \cup {Some(n) : n \in ReportedValues} :
          GarminReports(k, v)
    \/ GarminSyncDay

SpecHealth == HealthInit /\ [][HealthNext]_vars

\* The remote value of a field is absent: its key is missing or carries None.
RemoteAbsent(daily_data, field) == DictGet(daily_data, GarminKey(field), Null) = Null

\* C12: a field of the day's record that holds a value is left as it is by a
\* Garmin sync whose report has no value for it: neither None nor a default
\* such as 0 replaces it.
C12_SyncKeepsManualFields ==
    [][(~health.synced /\ health'.synced) =>
          \A f \in HealthFields :
              (health.health_data[f] # Null /\ RemoteAbsent(health.daily_data, f)) =>
                  health'.health_data[f] = health.health_data[f]]_vars

(***************************************************************************)
(* HealthMetricForm (components/health-metric-form.tsx) inside HealthPage. *)
(* An optional field of formData is Null when undefined.  sleep_hours is a *)
(* float with step 0.5 and is counted in half hours; the other numeric     *)
(* fields are integers.                                                    *)
(***************************************************************************)
Hours(n) == 2 * n

FormFields == {"date", "sleep_hours", "resting_heart_rate", "stress_level", "exercise_minutes"}

\* What the inputs can hold (e.target.value): a date input holds "" or a date,
\* a number input holds "" or a number.
DateTexts == {"", "2024-02-06"}
SleepTexts == {"", "-0.5", "24", "24.5"}
RateTexts == {"", "29", "200.5"}
StressTexts == {"", "100", "101"}
ExerciseTexts == {"", "-1"}

\* parseFloat, in half hours.
ParseFloat(text) ==
    CASE text = "-0.5" -> 0 - 1
      [] text = "24" -> Hours(24)
      [] text = "24.5" -> Hours(24) + 1

\* parseInt: the digits up to the decimal point.
ParseInt(text) ==
    CASE text = "-1" -> 0 - 1
      [] text = "29" -> 29
      [] text = "100" -> 100
      [] text = "101" -> 101
      [] text = "200.5" -> 200

\* `e.target.value ? parse(e.target.value) : undefined`
InputValue(field, text) ==
    IF field = "date" THEN text
    ELSE IF text = "" THEN Null
    ELSE IF field = "sleep_hours" THEN Some(ParseFloat(text))
    ELSE Some(ParseInt(text))

InputTexts(field) ==
    CASE field = "date" -> DateTexts
      [] field = "sleep_hours" -> SleepTexts
      [] field = "resting_heart_rate" -> RateTexts
      [] field = "stress_level" -> StressTexts
      [] field = "exercise_minutes" -> ExerciseTexts

\* useState(initialData || {date: today}) with no initialData.
NewFormData ==
    [date |-> "2024-02-06", sleep_hours |-> Null, resting_heart_rate |-> Null,
     stress_level |-> Null, exercise_minutes |-> Null]

NoErrors == [f \in FormFields |-> Null]

FormConstructed ==
    [formData |-> NewFormData, errors |-> NoErrors, isSubmitting |-> FALSE,
     onSubmit |-> Null, outcome |-> "none"]

\* handleChange: the field is set and its error becomes ''.
handleChange(field, text) ==
    /\ form' = [form EXCEPT !.formData[field] = InputValue(field, text),
                            !.errors[field] = Some(""),
                            !.outcome = "none"]
    /\ UNCHANGED <<sessionVars, linkVars, health, dash, auth>>

\* newErrors of handleSubmit.
(* a form that accepts any amount of sleep *)
NewErrorsNoSleepCheck(formData) ==
    [f \in FormFields |->
        CASE f = "date" ->
                IF formData.date = "" THEN Some("Date is required") ELSE Null
          [] f = "sleep_hours" -> Null
          [] f = "resting_heart_rate" ->
                IF formData.resting_heart_rate # Null
                   /\ (formData.resting_heart_rate[1] < 30
                       \/ formData.resting_heart_rate[1] > 200)
                THEN Some("Heart rate must be between 30 and 200") ELSE Null
          [] f = "stress_level" ->
                IF formData.stress_level # Null
                   /\ (formData.stress_level[1] < 0 \/ formData.stress_level[1] > 100)
                THEN Some("Stress level must be between 0 and 100") ELSE Null
          [] f = "exercise_minutes" ->
                IF formData.exercise_minutes # Null /\ formData.exercise_minutes[1] < 0
                THEN Some("Exercise minutes must be positive") ELSE Null]
NewErrors(formData) ==
    [f \in FormFields |->
        CASE f = "date" ->
                IF formData.date = "" THEN Some("Date is required") ELSE Null
          [] f = "sleep_hours" ->
                IF formData.sleep_hours # Null
                   /\ (formData.sleep_hours[1] < Hours(0)
                       \/ formData.sleep_hours[1] > Hours(24))
                THEN Some("Sleep hours must be between 0 and 24") ELSE Null
          [] f = "resting_heart_rate" ->
                IF formData.resting_heart_rate # Null
                   /\ (formData.resting_heart_rate[1] < 30
                       \/ formData.resting_heart_rate[1] > 200)
                THEN Some("Heart rate must be between 30 and 200") ELSE Null
          [] f = "stress_level" ->
                IF formData.stress_level # Null
                   /\ (formData.stress_level[1] < 0 \/ formData.stress_level[1] > 100)
                THEN Some("Stress level must be between 0 and 100") ELSE Null
          [] f = "exercise_minutes" ->
                IF formData.exercise_minutes # Null /\ formData.exercise_minutes[1] < 0
                THEN Some("Exercise minutes must be positive") ELSE Null]

\* Object.keys(newErrors)
ErrorKeys(errors) == {f \in FormFields : errors[f] # Null}

\* handleSubmit, up to the call of onSubmit; HealthPage.handleSubmit sets
\* isSubmitting, which disables the submit button.
FormHandleSubmit ==
    /\ ~form.isSubmitting
    /\ LET newErrors == NewErrors(form.formData) IN
         form' = IF ErrorKeys(newErrors) # {}
                 THEN [form EXCEPT !.errors = newErrors, !.outcome = "rejected"]
                 ELSE [form EXCEPT !.errors = NoErrors,
                                   !.onSubmit = Some(form.formData),
                                   !.isSubmitting = TRUE,
                                   !.outcome = "called"]
    /\ UNCHANGED <<sessionVars, linkVars, health, dash, auth>>

\* HealthPage.handleSubmit settles: a failed save leaves the form open, a
\* save that succeeded closes it, and it is opened again empty.
SubmitSettled(saved) ==
    /\ form.isSubmitting
    /\ form' = IF saved
               THEN FormConstructed
               ELSE [form EXCEPT !.isSubmitting = FALSE, !.outcome = "none"]
    /\ UNCHANGED <<sessionVars, linkVars, health, dash, auth>>

FormInit ==
    /\ pathname = "/health"
    /\ LoggedIn
    /\ LinkCardsClosed
    /\ health = Null
    /\ dash = Null
    /\ form = FormConstructed
    /\ auth = Null

FormNext ==
    \/ \E f \in FormFields : \E text \in InputTexts(f) : handleChange(f, text)
    \/ FormHandleSubmit
    \/ \E saved \in BOOLEAN : SubmitSettled(saved)

SpecForm == FormInit /\ [][FormNext]_vars

\* The fields of formData that break a rule of the form: an empty date,
\* sleep_hours outside 0..24, resting_heart_rate outside 30..200, stress_level
\* outside 0..100, negative exercise_minutes; a field that is not provided
\* breaks none.
OutOfRange(value, low, high) == value # Null /\ (value[1] < low \/ value[1] > high)
FailingFields(formData) ==
    {f \in FormFields :
        CASE f = "date" -> formData.date = ""
          [] f = "sleep_hours" -> OutOfRange(formData.sleep_hours, Hours(0), Hours(24))
          [] f = "resting_heart_rate" -> OutOfRange(formData.resting_heart_rate, 30, 200)
          [] f = "stress_level" -> OutOfRange(formData.stress_level, 0, 100)
          [] f = "exercise_minutes" ->
                formData.exercise_minutes # Null /\ formData.exercise_minutes[1] < 0}

\* C17: onSubmit is called only with data that breaks no rule, no call of
\* onSubmit starts from a form that breaks one, and a rejected submission
\* leaves an error message for exactly the fields that break a rule.
C17_OnSubmitOnlyWithValidData ==
    /\ [](form.onSubmit # Null => FailingFields(form.onSubmit[1]) = {})
    /\ [](form.outcome = "called" => form.onSubmit = Some(form.formData))
    /\ [](form.outcome = "rejected" =>
            /\ FailingFields(form.formData) # {}
            /\ {f \in FormFields : form.errors[f] \notin {Null, Some("")}}
                  = FailingFields(form.formData))
    /\ [][FailingFields(form.formData) # {} =>
            /\ form'.onSubmit \in {form.onSubmit, Null}
            /\ ~(~form.isSubmitting /\ form'.isSubmitting)
            /\ form'.outcome # "called"]_vars

\* A submission was rejected for two fields at once, one of them sleep_hours
\* just above 24.
C17_RejectedForTwoFields ==
    /\ form.outcome = "rejected"
    /\ form.formData.sleep_hours = Some(Hours(24) + 1)
    /\ Cardinality(FailingFields(form.formData)) = 2

(***************************************************************************)
(* Login: login() of lib/api.ts and AuthProvider (contexts/auth-context).  *)
(* A localStorage item is the text setItem stored: "user" stands for the   *)
(* JSON text of the user object, "undefined" is the text of undefined.     *)
(***************************************************************************)
Undefined == <<"js", "undefined">>
Emails == {"user@example.com", "other@example.com"}
LoginPasswords == {"secret", "wrong"}

\* The item localStorage.setItem stores for a value: String(value), and
\* JSON.stringify(undefined) is undefined.
StoredText(value) == IF value = Undefined THEN Some("undefined") ELSE value

\* JSON.parse of the stored user in getStoredUser: "undefined" is not JSON,
\* the item is removed and null returned.
ParsesAsJson(item) == item # Null /\ item # Some("undefined")

AuthConstructed ==
    [user |-> Null, isLoading |-> TRUE, mounted |-> FALSE, request |-> Null,
     refresh |-> Null, outcome |-> "none"]

\* The mount effect of AuthProvider.
AuthMount ==
    /\ ~auth.mounted
    /\ auth' = [auth EXCEPT !.mounted = TRUE, !.isLoading = FALSE,
                            !.user = IF ParsesAsJson(storedUser) THEN storedUser ELSE @]
    /\ storedUser' = IF ParsesAsJson(storedUser) THEN storedUser ELSE Null
    /\ UNCHANGED <<pathname, authToken, linkVars, health, dash, form>>

\* handleLogin up to the fetch of login().
handleLogin(email, password) ==
    /\ auth.mounted
    /\ auth.request = Null
    /\ pathname = LoginPage
    /\ auth' = [auth EXCEPT !.isLoading = TRUE, !.outcome = "none",
                            !.request = Some([email |-> email, password |-> password,
                                              phase |-> "sent", reply |-> NoReply])]
    /\ UNCHANGED <<sessionVars, linkVars, health, dash, form>>

\* The backend answers POST /auth/login: a token and the user for the
\* credentials of the account, 401 with a JSON detail otherwise; or the
\* request fails on the way (a gateway's page that is not JSON, no response).
LoginReplies(request) ==
    {IF request.email = "user@example.com" /\ request.password = "secret"
     THEN OkReply
     ELSE ErrorReply(401, TRUE, Some(<<"Incorrect", "email", "or", "password">>)),
     ErrorReply(502, FALSE, Null),
     ErrorReply(0, FALSE, Null)}

ServerLogin(reply) ==
    /\ auth.request # Null
    /\ auth.request[1].phase = "sent"
    /\ reply \in LoginReplies(auth.request[1])
    /\ auth' = [auth EXCEPT !.request = Some([@[1] EXCEPT !.phase = "replied",
                                                            !.reply = reply])]
    /\ UNCHANGED <<sessionVars, linkVars, health, dash, form>>

\* `await fetch(...)` rejects when there is no response, `await res.json()`
\* when the body is not JSON; nothing else makes login() reject.
LoginRejects(reply) == reply.status = 0 \/ ~reply.json

\* response.access_token and response.user of the parsed body: the body of an
\* error response has neither.
AccessToken(reply) == IF ResponseOk(reply) THEN Some("token") ELSE Undefined
ResponseUser(reply) == IF ResponseOk(reply) THEN Some("user") ELSE Undefined

\* The rest of login() and of handleLogin.
LoginResponse ==
    /\ auth.request # Null
    /\ auth.request[1].phase = "replied"
    /\ LET reply == auth.request[1].reply IN
         IF LoginRejects(reply)
         THEN /\ auth' = [auth EXCEPT !.request = Null, !.isLoading = FALSE,
                                      !.outcome = "rejected"]
              /\ UNCHANGED sessionVars
         ELSE /\ authToken' = StoredText(AccessToken(reply))
              /\ storedUser' = StoredText(ResponseUser(reply))
              /\ pathname' = "/"
              /\ auth' = [auth EXCEPT !.request = Null, !.isLoading = FALSE,
                                      !.user = ResponseUser(reply),
                                      !.outcome = "resolved"]
    /\ UNCHANGED <<linkVars, health, dash, form>>

\* refreshUser up to the fetch of getCurrentUser(), which sends the stored
\* token; the backend knows the token it issued.
refreshUser ==
    /\ auth.mounted
    /\ auth.refresh = Null
    /\ auth' = [auth EXCEPT !.refresh =
                    Some(IF authToken = Some("token") THEN OkReply
                         ELSE ErrorReply(401, TRUE, Some(<<"Not", "authenticated">>)))]
    /\ UNCHANGED <<sessionVars, linkVars, health, dash, form>>

\* The rest of refreshUser.
RefreshResponse ==
    /\ auth.refresh # Null
    /\ FetchAPISession(auth.refresh[1])
    /\ auth' = [auth EXCEPT !.refresh = Null,
                            !.user = IF ResponseOk(auth.refresh[1])
                                     THEN Some("user") ELSE Null]
    /\ UNCHANGED <<linkVars, health, dash, form>>

\* The login page is opened from another page.
OpenLoginPage ==
    /\ auth.mounted
    /\ pathname # LoginPage
    /\ pathname' = LoginPage
    /\ UNCHANGED <<authToken, storedUser, auth, linkVars, health, dash, form>>

\* handleLogout: logout() clears the session and opens the login page.
handleLogout ==
    /\ auth.mounted
    /\ authToken' = Null
    /\ storedUser' = Null
    /\ pathname' = LoginPage
    /\ auth' = [auth EXCEPT !.user = Null]
    /\ UNCHANGED <<linkVars, health, dash, form>>

\* The page is loaded again: the provider is constructed anew.
AuthReload ==
    /\ auth.mounted
    /\ auth.request = Null
    /\ auth.refresh = Null
    /\ auth' = AuthConstructed
    /\ UNCHANGED <<sessionVars, linkVars, health, dash, form>>

LoginInit ==
    /\ pathname = LoginPage
    /\ authToken \in {Null, Some("token")}
    /\ storedUser = IF authToken = Null THEN Null ELSE Some("user")
    /\ LinkCardsClosed
    /\ health = Null
    /\ dash = Null
    /\ form = Null
    /\ auth = AuthConstructed

LoginNext ==
    \/ AuthMount
    \/ \E email \in Emails, password \in LoginPasswords : handleLogin(email, password)
    \/ \E reply \in {OkReply, ErrorReply(401, TRUE, Some(<<"Incorrect", "email", "or", "password">>)),
                     ErrorReply(502, FALSE, Null), ErrorReply(0, FALSE, Null)} :
          ServerLogin(reply)
    \/ LoginResponse
    \/ refreshUser
    \/ RefreshResponse
    \/ OpenLoginPage
    \/ handleLogout
    \/ AuthReload

SpecLogin == LoginInit /\ [][LoginNext]_vars

\* C19: handling a login response that is not OK rejects the login and
\* leaves localStorage, the user of the provider and the page as they were.
C19_RefusedLoginWritesNothing ==
    [][(/\ auth.request # Null
        /\ auth.request[1].phase = "replied"
        /\ ~ResponseOk(auth.request[1].reply)
        /\ auth'.request = Null) =>
           /\ auth'.outcome = "rejected"
           /\ authToken' = authToken
           /\ storedUser' = storedUser
           /\ auth'.user = auth.user
           /\ pathname' = pathname]_vars

(***************************************************************************)
(* DashboardPage (app/page.tsx) with CardSettingsPanel and DateNavigator.  *)
(* A JS Set is the sequence of its members in insertion order.  A date is  *)
(* a number of days from today.  A JSON text is a sequence of tokens.      *)
(***************************************************************************)
MaxCards == 2
MaxDay == 1
MaxRequests == 2

CARD_IDS == <<"sleep", "activity_health", "work", "stress", "trends">>
\* The cards whose visibility is changed in the model.
Cards == {CARD_IDS[i] : i \in 1..MaxCards}
Dates == (0 - MaxDay)..MaxDay
Today == 0
CurrentUser == 1
OtherUser == 2

Range(seq) == {seq[i] : i \in 1..Len(seq)}
\* Set.add, Set.delete
SetAdd(set, x) == IF x \in Range(set) THEN set ELSE Append(set, x)
SetDelete(set, x) == SelectSeq(set, LAMBDA y : y # x)

\* JSON.stringify(Array.from(set))
RECURSIVE JsonItems(_)
JsonItems(array) ==
    IF Len(array) = 0 THEN <<>>
    ELSE IF Len(array) = 1 THEN <<array[1]>>
    ELSE <<array[1], ",">> \o JsonItems(Tail(array))
JsonStringify(array) == <<"[">> \o JsonItems(array) \o <<"]">>

\* JSON.parse followed by parsed.forEach(add): the members of a JSON array
\* of strings; Null when JSON.parse throws or the value has no forEach (an
\* object, a string, null).
JsonPunctuation == {"[", "]", ",", "{", "}"}
IsJsonArray(text) ==
    /\ Len(text) >= 2
    /\ text[1] = "["
    /\ text[Len(text)] = "]"
    /\ Len(text) = 2 \/ Len(text) % 2 = 1
    /\ \A i \in 2..(Len(text) - 1) :
          IF i % 2 = 0 THEN text[i] \notin JsonPunctuation ELSE text[i] = ","
RECURSIVE AddAll(_, _)
AddAll(set, items) ==
    IF Len(items) = 0 THEN set ELSE AddAll(SetAdd(set, items[1]), Tail(items))
JsonParseArray(text) ==
    IF IsJsonArray(text)
    THEN Some([i \in 1..((Len(text) - 1) \div 2) |-> text[2 * i]])
    ELSE Null

\* fetchData: the hidden cards of the preferences (hidden_cards is null, '' or
\* a text).
(* a page that shows every card after a reload *)
ParseHiddenCardsAsEmpty(hidden_cards) == <<>>
ParseHiddenCards(hidden_cards) ==
    IF hidden_cards = Null \/ hidden_cards[1] = <<>>
    THEN <<>>
    ELSE IF JsonParseArray(hidden_cards[1]) = Null
    THEN <<>>
    ELSE AddAll(<<>>, JsonParseArray(hidden_cards[1])[1])

DashboardConstructed ==
    [summary |-> Null, overview |-> Null, trends |-> Null, members |-> <<>>,
     loading |-> TRUE, error |-> Null, settingsOpen |-> FALSE,
     selectedMember |-> Null, selectedDate |-> Today, hiddenCards |-> <<>>,
     preferences |-> Null, localHiddenCards |-> <<>>, calendarOpen |-> FALSE,
     mounted |-> FALSE, fetches |-> EmptyBag, writes |-> EmptyBag,
     hidden_cards |-> Null, family |-> FALSE, loaded |-> FALSE, completed |-> Null]

\* What is on screen.
DashboardMainContent ==
    /\ dash.mounted
    /\ ~dash.loading
    /\ dash.error = Null
    /\ dash.summary # Null
    /\ dash.overview # Null
CardShown(cardId) == DashboardMainContent /\ cardId \notin Range(dash.hiddenCards)
FamilyMemberStripShown ==
    /\ DashboardMainContent
    /\ Len(dash.members) > 1
    /\ \E i \in 1..Len(dash.members) : dash.members[i] # dash.preferences[1]
ErrorShown == dash.mounted /\ dash.error # Null /\ ~dash.loading

\* The settings panel lies over the page: the controls of the page are out
\* of reach while it is open.
PageInReach == dash.mounted /\ ~dash.settingsOpen

\* disabled={loading} on the refresh button and on the controls of the date
\* navigator; the today button is also disabled on today.
RefreshEnabled == PageInReach /\ ~dash.loading
(* a date navigator whose buttons stay enabled while loading *)
DayButtonsAlwaysEnabled == PageInReach
DayButtonsEnabled == PageInReach /\ ~dash.loading
CalendarTriggerEnabled == PageInReach /\ ~dash.loading
TodayEnabled == PageInReach /\ ~(dash.loading \/ dash.selectedDate = Today)

\* The effect of CardSettingsPanel on [isOpen, hiddenCards]: an open panel
\* takes the hidden cards of the page whenever they are set.
PanelSync(d) ==
    IF d.settingsOpen THEN [d EXCEPT !.localHiddenCards = d.hiddenCards] ELSE d

\* fetchData up to the four requests of Promise.all.  Pressing a control of
\* the page closes the calendar popover (a press outside its content).
FetchStarted(d, date) ==
    [d EXCEPT !.loading = TRUE, !.error = Null, !.calendarOpen = FALSE,
              !.fetches = @ (+) SetToBag({[date |-> date, phase |-> "sent",
                                           ok |-> FALSE, hidden_cards |-> Null,
                                           family |-> FALSE]})]
\* The model follows at most MaxRequests requests of the page at a time.
CanSend(n) ==
    BagCardinality(dash.fetches) + BagCardinality(dash.writes) + n <= MaxRequests
CanFetch == CanSend(1)

DashLeavesRest == UNCHANGED <<sessionVars, linkVars, health, form, auth>>

DashboardMount ==
    /\ ~dash.mounted
    /\ CanFetch
    /\ dash' = FetchStarted([dash EXCEPT !.mounted = TRUE], dash.selectedDate)
    /\ DashLeavesRest

\* The refresh button, and the retry button of the error state.
Refresh ==
    /\ RefreshEnabled
    /\ CanFetch
    /\ dash' = FetchStarted(dash, dash.selectedDate)
    /\ DashLeavesRest

\* handleDateChange
DateChanged(d, date) == FetchStarted([d EXCEPT !.selectedDate = date], date)

goToPreviousDay ==
    /\ DayButtonsEnabled
    /\ CanFetch
    /\ dash.selectedDate - 1 \in Dates
    /\ dash' = DateChanged(dash, dash.selectedDate - 1)
    /\ DashLeavesRest

goToNextDay ==
    /\ DayButtonsEnabled
    /\ CanFetch
    /\ dash.selectedDate + 1 \in Dates
    /\ dash' = DateChanged(dash, dash.selectedDate + 1)
    /\ DashLeavesRest

goToToday ==
    /\ TodayEnabled
    /\ CanFetch
    /\ dash' = DateChanged(dash, Today)
    /\ DashLeavesRest

\* The trigger of the popover opens and closes the calendar.
CalendarTrigger ==
    /\ CalendarTriggerEnabled
    /\ dash' = [dash EXCEPT !.calendarOpen = ~@]
    /\ DashLeavesRest

\* handleDateSelect: a day of the open calendar is picked; picking the
\* selected day again passes undefined.
handleDateSelect(date) ==
    /\ dash.mounted
    /\ dash.calendarOpen
    /\ date # dash.selectedDate
    /\ CanFetch
    /\ dash' = DateChanged(dash, date)
    /\ DashLeavesRest

\* The backend answers the four requests of one fetchData: the data of the
\* date and the preferences as stored, or an error for one of them.
ServerDashboard(f, ok) ==
    /\ f \in BagToSet(dash.fetches)
    /\ f.phase = "sent"
    /\ dash' = [dash EXCEPT !.fetches =
                   (@ (-) SetToBag({f})) (+)
                   SetToBag({[f EXCEPT !.phase = "replied", !.ok = ok,
                                       !.hidden_cards = IF ok THEN dash.hidden_cards ELSE Null,
                                       !.family = ok /\ dash.family]})]
    /\ DashLeavesRest

\* The rest of fetchData.
FetchDataResponse(f) ==
    /\ f \in BagToSet(dash.fetches)
    /\ f.phase = "replied"
    /\ LET d == [dash EXCEPT !.fetches = @ (-) SetToBag({f}), !.loading = FALSE] IN
         dash' = IF f.ok
                 THEN PanelSync([d EXCEPT
                         !.summary = Some(f.date),
                         !.overview = Some([date |-> f.date,
                                            users |-> IF f.family
                                                      THEN {CurrentUser, OtherUser}
                                                      ELSE {CurrentUser}]),
                         !.trends = Some(f.date),
                         !.preferences = Some(CurrentUser),
                         !.hiddenCards = ParseHiddenCards(f.hidden_cards),
                         !.members = <<CurrentUser>>,
                         !.loaded = TRUE,
                         !.completed = Null])
                 ELSE [d EXCEPT !.error = Some("HTTP 500")]
    /\ DashLeavesRest

\* handleToggleCard as called from a render whose hiddenCards is `captured`:
\* the set it sets, and the request it sends (which keeps `captured` for the
\* revert of its catch).
NewHiddenCards(captured, cardId, hidden) ==
    IF hidden THEN SetAdd(captured, cardId) ELSE SetDelete(captured, cardId)
UpdateHiddenCards(captured, cardId, hidden) ==
    [json |-> JsonStringify(NewHiddenCards(captured, cardId, hidden)),
     cards |-> NewHiddenCards(captured, cardId, hidden),
     revert |-> captured, phase |-> "sent"]
CanWrite(n) == CanSend(n)

\* The visibility control of a card on screen hides the card.
CardHide(cardId) ==
    /\ PageInReach
    /\ CardShown(cardId)
    /\ CanWrite(1)
    /\ dash' = [dash EXCEPT
                  !.hiddenCards = NewHiddenCards(dash.hiddenCards, cardId, TRUE),
                  !.writes = @ (+) SetToBag({UpdateHiddenCards(dash.hiddenCards, cardId, TRUE)}),
                  !.calendarOpen = FALSE,
                  !.loaded = FALSE,
                  !.completed = Null]
    /\ DashLeavesRest

\* The settings button of the page opens the panel.
OpenSettings ==
    /\ PageInReach
    /\ dash' = PanelSync([dash EXCEPT !.settingsOpen = TRUE, !.calendarOpen = FALSE])
    /\ DashLeavesRest

\* handleToggle of the panel.
handleToggle(cardId) ==
    /\ dash.mounted
    /\ dash.settingsOpen
    /\ dash' = [dash EXCEPT !.localHiddenCards =
                   IF cardId \in Range(@) THEN SetDelete(@, cardId) ELSE SetAdd(@, cardId)]
    /\ DashLeavesRest

\* The calls of onToggleCard that handleComplete makes, in order: the two
\* forEach loops.
CompleteCalls(localHiddenCards, hiddenCards) ==
    LET hide == SelectSeq(localHiddenCards, LAMBDA c : c \notin Range(hiddenCards))
        show == SelectSeq(hiddenCards, LAMBDA c : c \notin Range(localHiddenCards))
    IN [i \in 1..Len(hide) |-> [cardId |-> hide[i], hidden |-> TRUE]]
       \o [i \in 1..Len(show) |-> [cardId |-> show[i], hidden |-> FALSE]]

\* handleComplete: every call is handleToggleCard of the render the panel was
\* given, so every call starts from the same hiddenCards; the set of the last
\* call is the one the page keeps.
handleComplete ==
    /\ dash.mounted
    /\ dash.settingsOpen
    /\ LET calls == CompleteCalls(dash.localHiddenCards, dash.hiddenCards)
           requests == [i \in 1..Len(calls) |->
                          UpdateHiddenCards(dash.hiddenCards, calls[i].cardId, calls[i].hidden)]
       IN /\ CanWrite(Len(calls))
          /\ dash' = [dash EXCEPT
                        !.hiddenCards = IF Len(calls) = 0 THEN @
                                        ELSE requests[Len(calls)].cards,
                        !.writes = @ (+) [r \in Range(requests) |->
                                            Cardinality({i \in 1..Len(requests) : requests[i] = r})],
                        !.settingsOpen = FALSE,
                        !.loaded = @ /\ Len(calls) = 0,
                        !.completed = Some(dash.localHiddenCards)]
    /\ DashLeavesRest

\* onClose: the close button, cancel, the backdrop, the Escape key.
ClosePanel ==
    /\ dash.mounted
    /\ dash.settingsOpen
    /\ dash' = [dash EXCEPT !.settingsOpen = FALSE]
    /\ DashLeavesRest

\* The backend stores the hidden cards of a PUT, or fails.  handleToggleCard
\* does nothing more when its request succeeds: the request is then done.
ServerUpdateHiddenCards(w, ok) ==
    /\ w \in BagToSet(dash.writes)
    /\ w.phase = "sent"
    /\ dash' = [dash EXCEPT
                  !.writes = IF ok THEN @ (-) SetToBag({w})
                             ELSE (@ (-) SetToBag({w})) (+)
                                  SetToBag({[w EXCEPT !.phase = "failed"]}),
                  !.hidden_cards = IF ok THEN Some(w.json) ELSE @]
    /\ DashLeavesRest

\* The catch of handleToggleCard: a failed request reverts the page to the
\* set the call started from.
ToggleCardFailed(w) ==
    /\ w \in BagToSet(dash.writes)
    /\ w.phase = "failed"
    /\ dash' = PanelSync([dash EXCEPT !.writes = @ (-) SetToBag({w}),
                                      !.hiddenCards = w.revert,
                                      !.loaded = FALSE,
                                      !.completed = Null])
    /\ DashLeavesRest

\* The preferences the backend holds at first: no hidden_cards, '', a text
\* that is not JSON, JSON that is no array, or an array.
StoredAtFirst ==
    {Null, Some(<<>>), Some(<<"[", "sleep">>), Some(<<"{", "}">>),
     Some(JsonStringify(<<"sleep">>))}

\* The dashboard is opened; the family has one member or two.
DashInit ==
    /\ pathname = "/"
    /\ LoggedIn
    /\ LinkCardsClosed
    /\ health = Null
    /\ form = Null
    /\ auth = Null
    /\ \E stored \in StoredAtFirst, family \in BOOLEAN :
          dash = [DashboardConstructed EXCEPT !.hidden_cards = stored, !.family = family]

DashServerNext ==
    \/ DashboardMount
    \/ Refresh
    \/ \E f \in BagToSet(dash.fetches), ok \in BOOLEAN : ServerDashboard(f, ok)
    \/ \E f \in BagToSet(dash.fetches) : FetchDataResponse(f)

\* The page with its date navigator.
DashNext ==
    \/ DashServerNext
    \/ goToPreviousDay
    \/ goToNextDay
    \/ goToToday
    \/ CalendarTrigger
    \/ \E date \in Dates : handleDateSelect(date)
    \/ OpenSettings
    \/ ClosePanel

SpecDashboard == DashInit /\ [][DashNext]_vars

\* The page with its cards and the settings panel, on one date.
CardsNext ==
    \/ DashServerNext
    \/ \E cardId \in Cards : CardHide(cardId)
    \/ OpenSettings
    \/ \E cardId \in Cards : handleToggle(cardId)
    \/ handleComplete
    \/ ClosePanel
    \/ \E w \in BagToSet(dash.writes), ok \in BOOLEAN : ServerUpdateHiddenCards(w, ok)
    \/ \E w \in BagToSet(dash.writes) : ToggleCardFailed(w)

\* The dashboard of a user who lives alone and whose preferences hold no
\* hidden_cards, a text cut short, or JSON that is no array.
CardsInit ==
    /\ pathname = "/"
    /\ LoggedIn
    /\ LinkCardsClosed
    /\ health = Null
    /\ form = Null
    /\ auth = Null
    /\ \E stored \in {Null, Some(<<"[", "sleep">>), Some(<<"{", "}">>)} :
          dash = [DashboardConstructed EXCEPT !.hidden_cards = stored]

SpecCards == CardsInit /\ [][CardsNext]_vars

\* The page with its cards, which are hidden one by one and loaded again.
ReloadNext ==
    \/ DashServerNext
    \/ \E cardId \in Cards : CardHide(cardId)
    \/ \E w \in BagToSet(dash.writes), ok \in BOOLEAN : ServerUpdateHiddenCards(w, ok)
    \/ \E w \in BagToSet(dash.writes) : ToggleCardFailed(w)

SpecReload == CardsInit /\ [][ReloadNext]_vars

(***************************************************************************)
(* Properties of the dashboard.                                            *)
(***************************************************************************)
\* The step handles the response f of a fetchData.
HandlesFetch(f) ==
    /\ f \in BagToSet(dash.fetches)
    /\ f.phase = "replied"
    /\ dash'.fetches = dash.fetches (-) SetToBag({f})

\* C13: after the settings panel is confirmed, the hidden cards of the page
\* are the panel's selection, and once its requests are done the value the
\* backend holds is that selection too; a panel that is closed and sends
\* nothing changes neither.
C13_CompleteAppliesAllChanges ==
    /\ [](dash.completed # Null =>
            /\ Range(dash.hiddenCards) = Range(dash.completed[1])
            /\ dash.writes = EmptyBag =>
                  Range(ParseHiddenCards(dash.hidden_cards)) = Range(dash.completed[1]))
    /\ [][(dash.settingsOpen /\ ~dash'.settingsOpen /\ dash'.writes = dash.writes) =>
             /\ dash'.hiddenCards = dash.hiddenCards
             /\ dash'.hidden_cards = dash.hidden_cards]_vars

\* The sets of cards in every insertion order.
HiddenCardSets ==
    {set \in UNION {[1..n -> Cards] : n \in 0..Cardinality(Cards)} :
        \A i, j \in 1..Len(set) : i # j => set[i] # set[j]}

\* C14: the text every request carries to the backend parses back to the set
\* it was made from; a fetchData that reads the text of a set sets exactly
\* that set, and one that reads no hidden_cards or a text that is no JSON
\* array sets the empty set; in both cases the load succeeds.
C14_HiddenCardsRoundTrip ==
    /\ [](\A w \in BagToSet(dash.writes) : ParseHiddenCards(Some(w.json)) = w.cards)
    /\ [][\A f \in BagToSet(dash.fetches) : (HandlesFetch(f) /\ f.ok) =>
             /\ \A set \in HiddenCardSets :
                   f.hidden_cards = Some(JsonStringify(set)) => dash'.hiddenCards = set
             /\ (f.hidden_cards = Null \/ ~IsJsonArray(f.hidden_cards[1])) =>
                   dash'.hiddenCards = <<>>
             /\ ~dash'.loading
             /\ dash'.error = Null
             /\ dash'.summary = Some(f.date)]_vars

\* Two cards were hidden and stored, and the page has loaded them again.
C14_TwoCardsLoadedAgain ==
    /\ dash.loaded
    /\ Len(dash.hiddenCards) = 2
    /\ dash.hidden_cards = Some(JsonStringify(dash.hiddenCards))
    /\ DashboardMainContent

\* C15: with the metrics of another user in the overview on screen, the
\* family member strip is on screen and lists that user.
C15_FamilyStripShown ==
    (DashboardMainContent /\ OtherUser \in dash.overview[1].users) =>
        /\ FamilyMemberStripShown
        /\ OtherUser \in Range(dash.members)

NewConnectRequests ==
    {r \in BagToSet(net') : /\ r.kind = "garmin_connect"
                            /\ r.phase = "sent"
                            /\ CopiesIn(r, net') > CopiesIn(r, net)}

\* C23: every Garmin connect request that carries an MFA code carries the
\* username, the password and the region flag of the request without a code
\* that came immediately before it.  In steps: a request with a code is sent
\* from the MFA step only and carries the card's three fields; a request
\* without a code is sent from the credentials step only; the card enters
\* the MFA step only by handling the reply to a request without a code whose
\* three fields are the card's; and no step changes the three fields while
\* the card stays in the MFA step.
C23_MfaRequestRepeatsCredentials ==
    [][ /\ \A r \in NewConnectRequests :
              IF r.mfa_token = ""
              THEN garmin.loginStep = "credentials"
              ELSE /\ garmin.loginStep = "mfa"
                   /\ r.username = garmin.username
                   /\ r.password = garmin.password
                   /\ r.is_cn = garmin.isCn
        /\ (garmin.loginStep = "mfa" /\ garmin'.loginStep = "mfa")
              => /\ garmin'.username = garmin.username
                 /\ garmin'.password = garmin.password
                 /\ garmin'.isCn = garmin.isCn
        /\ (garmin.loginStep # "mfa" /\ garmin'.loginStep = "mfa")
              => \E r \in BagToSet(net) :
                    /\ r.kind = "garmin_connect"
                    /\ r.mfa_token = ""
                    /\ net' = Take(r)
                    /\ r.username = garmin'.username
                    /\ r.password = garmin'.password
                    /\ r.is_cn = garmin'.isCn ]_vars

\* C23 witness: a request with a code is in flight for the China region.
C23_MfaRequestForChinaRegion ==
    \E r \in BagToSet(net) :
        /\ r.kind = "garmin_connect"
        /\ r.phase = "sent"
        /\ r.mfa_token # ""
        /\ r.is_cn
        /\ r.username = garmin.username
        /\ garmin.loginStep = "mfa"

(***************************************************************************)
(* The outcome of a sync attempt                                           *)
(***************************************************************************)
\* The result of the sync request r reports success.
SyncSucceeded(r) == ResponseOk(r.reply) /\ r.reply.success

\* C25: the continuation of a sync request whose response reports success
\* sets the `Sync complete` result and calls onSyncComplete; the continuation
\* of one that reports success = false, or that was rejected, sets an error
\* and does not call onSyncComplete; either way syncing is false afterwards.
\* For both cards.
C25_SyncOutcomePresented ==
    [][\A r \in BagToSet(net) :
          /\ (last'.op = "GarminSyncResponse" /\ net' = Take(r)) =>
                /\ ~garmin'.syncing
                /\ last'.onSyncComplete = SyncSucceeded(r)
                /\ SyncSucceeded(r) => garmin'.syncResult = Text("Sync complete", r.is_cn)
                /\ ~SyncSucceeded(r) => garmin'.error # Null
          /\ (last'.op = "StravaSyncResponse" /\ net' = Take(r)) =>
                /\ ~strava'.syncing
                /\ last'.onSyncComplete = SyncSucceeded(r)
                /\ SyncSucceeded(r) => strava'.syncResult = <<"Sync complete">>
                /\ ~SyncSucceeded(r) => strava'.error # Null ]_vars

\* C25 witness: a Garmin sync that reported success has been presented and
\* onSyncComplete was called.
C25_CompletedSyncPresented ==
    /\ last.op = "GarminSyncResponse"
    /\ last.status = 200
    /\ last.onSyncComplete
    /\ garmin.syncResult # Null
    /\ ~garmin.syncing

(***************************************************************************)
(* The frame of handleUnlink                                               *)
(***************************************************************************)
\* C26: an unlink declined at the prompt sends no request and leaves the
\* card as it was; the continuation of an unlink request that failed changes
\* nothing of the card but its error, which it sets to the failure message:
\* the connection is the one the card held, a connected card is still
\* connected.  For both cards.
C26_UnlinkFrame ==
    [][/\ last'.op = "GarminUnlinkDeclined" => (garmin' = garmin /\ net' = net)
       /\ last'.op = "StravaUnlinkDeclined" => (strava' = strava /\ net' = net)
       /\ \A r \in BagToSet(net) :
             /\ (/\ last'.op = "GarminUnlinkResponse"
                 /\ net' = Take(r)
                 /\ ~ResponseOk(r.reply)) =>
                   /\ garmin' = [garmin EXCEPT
                                   !.error = <<"Failed to unlink Garmin account">>]
                   /\ IsConnected(garmin.connection) => IsConnected(garmin'.connection)
             /\ (/\ last'.op = "StravaUnlinkResponse"
                 /\ net' = Take(r)
                 /\ ~ResponseOk(r.reply)) =>
                   /\ strava' = [strava EXCEPT
                                   !.error = <<"Failed to unlink Strava account">>]
                   /\ IsConnected(strava.connection) => IsConnected(strava'.connection)
      ]_vars

\* C26 witness: an unlink of the Garmin account has failed, and the card
\* shows the failure on the connection it still holds.
C26_FailedUnlinkStillConnected ==
    /\ last.op = "GarminUnlinkResponse"
    /\ last.status # 200
    /\ IsConnected(garmin.connection)
    /\ garmin.error = <<"Failed to unlink Garmin account">>

(***************************************************************************)
(* The return from Strava.  handleConnect asks for an authorization URL    *)
(* with redirectUri = `${window.location.origin}`; Strava sends the        *)
(* browser back to that URI with `code` in the query (section 4.2, step 2) *)
(* or, when the user refuses, without one.  The origin is the page `/`,    *)
(* the dashboard; StravaConnectionCard, whose mount effect reads the code, *)
(* is mounted by StravaSettingsPage (/settings/strava) only.               *)
(***************************************************************************)
\* const redirectUri = `${window.location.origin}`
Origin == "https://hub"
RedirectUri == Origin

\* The path of the page a URI of this site opens.
PathOf(uri) == IF uri = Origin THEN "/" ELSE StravaPage

\* The user answers Strava's authorization prompt; Strava redirects the
\* browser to the redirect URI, which loads the application anew.
StravaAuthorizes(granted) ==
    /\ pathname = StravaSite
    /\ pathname' = PathOf(RedirectUri)
    /\ urlCode' = IF granted THEN Some(AuthCode) ELSE Null
    /\ strava' = StravaConstructed
    /\ net' = EmptyBag
    /\ last' = Step("StravaAuthorizes", NoRequest)
    /\ UNCHANGED <<authToken, storedUser, garmin, server, submitted, pages>>

\* The page of the origin is opened: DashboardPage mounts.
OriginPageMount ==
    /\ pathname = "/"
    /\ DashboardMount

\* The Strava page is opened, by its link in the settings or by a URL that
\* holds a code; the dashboard is not on screen yet.
ReturnInit ==
    /\ pathname = StravaPage
    /\ urlCode \in {Null, Some(AuthCode)}
    /\ LoggedIn
    /\ garmin = GarminConstructed
    /\ strava = StravaConstructed
    /\ net = EmptyBag
    /\ server = [ServerInit EXCEPT !.stravaConfig = TRUE]
    /\ submitted = 0
    /\ last = Step("construct", NoRequest)
    /\ health = Null
    /\ form = Null
    /\ auth = Null
    /\ dash = DashboardConstructed
    /\ RestClosed

ReturnNext ==
    \/ StravaNext
    \/ \E granted \in BOOLEAN : StravaAuthorizes(granted)
    \/ OriginPageMount
    \/ Refresh
    \/ \E f \in BagToSet(dash.fetches), ok \in BOOLEAN : ServerDashboard(f, ok)
    \/ \E f \in BagToSet(dash.fetches) : FetchDataResponse(f)

SpecReturn == ReturnInit /\ [][ReturnNext]_vars

\* Every step that can be taken is taken at some time: the browser loads the
\* page it is sent to, the backend answers, the user answers the prompt.
SpecReturnFair == SpecReturn /\ WF_vars(ReturnNext)

\* C21: once the browser is back on the redirect URI with a code in its URL,
\* the code is eventually sent to the callback endpoint.
C21_ReturnedCodeIsSubmitted ==
    (pathname = PathOf(RedirectUri) /\ urlCode # Null)
        ~> (\E r \in BagToSet(net) : r.kind = "strava_callback" /\ r.code = AuthCode)

(***************************************************************************)
(* lib/api.ts: the session in localStorage.  The calls of register, login, *)
(* logout, getStoredUser and fetchAPI, each from whatever page the browser *)
(* is on; a call that awaits a response is in `api.calls` until it returns.*)
(***************************************************************************)
MaxCalls == 2

Paths == {"/", LoginPage, "/register", GarminPage}

\* `if (token && ...)`, `if (!userStr)`: the empty text is falsy.
Truthy(item) == item # Null /\ item # Some("")

\* headers['Authorization'] = `Bearer ${token}` under `token && !options?.skipAuth`.
AuthorizationHeader(token, skipAuth) ==
    IF Truthy(token) /\ ~skipAuth THEN Some(<<"Bearer", token[1]>>) ELSE Null

ApiCall(fn, skipAuth, authorization) ==
    [fn |-> fn, skipAuth |-> skipAuth, authorization |-> authorization,
     phase |-> "sent", reply |-> NoReply]

ApiReturned(c, outcome) ==
    [fn |-> c.fn, status |-> c.reply.status, outcome |-> outcome,
     authorization |-> c.authorization]

ApiConstructed ==
    [calls |-> EmptyBag,
     last |-> [fn |-> "none", status |-> 0, outcome |-> "none", authorization |-> Null]]

\* api = [calls, last]; `rest` holds api, so the frame names its parts.
ApiFrame ==
    UNCHANGED <<urlCode, garmin, strava, net, server, submitted, last,
                health, dash, form, auth, panel, pace, trend>>

\* fetchAPI up to `await fetch(url, {...options, headers})`; register() calls
\* it with skipAuth: true, every other function without.
ApiFetch(fn, skipAuth) ==
    /\ BagCardinality(api.calls) < MaxCalls
    /\ api' = [api EXCEPT !.calls =
                  @ (+) SetToBag({ApiCall(fn, skipAuth,
                                          AuthorizationHeader(authToken, skipAuth))})]
    /\ UNCHANGED sessionVars
    /\ ApiFrame

\* login() up to its `await fetch(...)`: no Authorization header.
ApiLogin ==
    /\ BagCardinality(api.calls) < MaxCalls
    /\ api' = [api EXCEPT !.calls = @ (+) SetToBag({ApiCall("login", TRUE, Null)})]
    /\ UNCHANGED sessionVars
    /\ ApiFrame

\* The backend's answers.  A protected endpoint refuses a request without the
\* token the backend issued, and may refuse one with it (expired) or fail;
\* the register endpoint refuses an email that is taken; the login endpoint
\* refuses wrong credentials; a gateway may answer with a page that is not
\* JSON, and a request may get no response.
ApiReplies(c) ==
    IF c.fn = "fetchAPI"
    THEN IF c.authorization = Some(<<"Bearer", "token">>)
         THEN {OkReply, ErrorReply(401, TRUE, Some(<<"Token", "expired">>)),
               ErrorReply(500, TRUE, Some(<<"Internal", "error">>)),
               ErrorReply(0, FALSE, Null)}
         ELSE {ErrorReply(401, TRUE, Some(<<"Not", "authenticated">>))}
    ELSE IF c.fn = "register"
    THEN {OkReply, ErrorReply(400, TRUE, Some(<<"Email", "already", "registered">>)),
          ErrorReply(502, FALSE, Null)}
    ELSE {OkReply, ErrorReply(401, TRUE, Some(<<"Incorrect", "email", "or", "password">>)),
          ErrorReply(502, FALSE, Null), ErrorReply(0, FALSE, Null)}

ApiServer(c, reply) ==
    /\ c \in BagToSet(api.calls)
    /\ c.phase = "sent"
    /\ reply \in ApiReplies(c)
    /\ api' = [api EXCEPT !.calls = (@ (-) SetToBag({c})) (+)
                             SetToBag({[c EXCEPT !.phase = "replied", !.reply = reply]})]
    /\ UNCHANGED sessionVars
    /\ ApiFrame

\* The rest of fetchAPI, and of register() when fetchAPI returned.
ApiFetchReturn(c) ==
    /\ c \in BagToSet(api.calls)
    /\ c.phase = "replied"
    /\ c.fn \in {"fetchAPI", "register"}
    /\ IF ResponseOk(c.reply)
       THEN /\ api' = [api EXCEPT !.calls = @ (-) SetToBag({c}),
                                  !.last = ApiReturned(c, "resolved")]
            /\ IF c.fn = "register"
               THEN /\ authToken' = StoredText(AccessToken(c.reply))
                    /\ storedUser' = StoredText(ResponseUser(c.reply))
                    /\ UNCHANGED pathname
               ELSE UNCHANGED sessionVars
       ELSE /\ api' = [api EXCEPT !.calls = @ (-) SetToBag({c}),
                                  !.last = ApiReturned(c, "rejected")]
            /\ FetchAPISession(c.reply)
    /\ ApiFrame

\* The rest of login().
ApiLoginReturn(c) ==
    /\ c \in BagToSet(api.calls)
    /\ c.phase = "replied"
    /\ c.fn = "login"
    /\ IF LoginRejects(c.reply)
       THEN /\ api' = [api EXCEPT !.calls = @ (-) SetToBag({c}),
                                  !.last = ApiReturned(c, "rejected")]
            /\ UNCHANGED sessionVars
       ELSE /\ api' = [api EXCEPT !.calls = @ (-) SetToBag({c}),
                                  !.last = ApiReturned(c, "resolved")]
            /\ authToken' = StoredText(AccessToken(c.reply))
            /\ storedUser' = StoredText(ResponseUser(c.reply))
            /\ UNCHANGED pathname
    /\ ApiFrame

\* logout(): clearAuthToken(), then window.location.href = '/login'.
ApiLogout ==
    /\ authToken' = Null
    /\ storedUser' = Null
    /\ pathname' = LoginPage
    /\ api' = [api EXCEPT !.last = [fn |-> "logout", status |-> 0, outcome |-> "resolved",
                                    authorization |-> Null]]
    /\ ApiFrame

\* getStoredUser(): an item that does not parse is removed.
ApiGetStoredUser ==
    /\ storedUser' = IF Truthy(storedUser) /\ ~ParsesAsJson(storedUser)
                     THEN Null ELSE storedUser
    /\ api' = [api EXCEPT !.last = [fn |-> "getStoredUser", status |-> 0,
                                    outcome |-> "resolved", authorization |-> Null]]
    /\ UNCHANGED <<pathname, authToken>>
    /\ ApiFrame

\* The user opens another page.
ApiNavigate(path) ==
    /\ path # pathname
    /\ pathname' = path
    /\ UNCHANGED <<authToken, storedUser, api>>
    /\ ApiFrame

\* The browser holds a session (token and user) or none.
ApiInit ==
    /\ pathname \in Paths
    /\ authToken \in {Null, Some("token")}
    /\ storedUser = IF authToken = Null THEN Null ELSE Some("user")
    /\ urlCode = Null
    /\ garmin = GarminConstructed
    /\ strava = StravaConstructed
    /\ net = EmptyBag
    /\ server = ServerInit
    /\ submitted = 0
    /\ last = Step("construct", NoRequest)
    /\ health = Null
    /\ dash = Null
    /\ form = Null
    /\ auth = Null
    /\ api = ApiConstructed
    /\ panel = Null
    /\ pace = Null
    /\ trend = Null

ApiNext ==
    \/ \E skipAuth \in BOOLEAN : ApiFetch("fetchAPI", skipAuth)
    \/ ApiFetch("register", TRUE)
    \/ ApiLogin
    \/ \E c \in BagToSet(api.calls) : \E reply \in ApiReplies(c) : ApiServer(c, reply)
    \/ \E c \in BagToSet(api.calls) : ApiFetchReturn(c)
    \/ \E c \in BagToSet(api.calls) : ApiLoginReturn(c)
    \/ ApiLogout
    \/ ApiGetStoredUser
    \/ \E path \in Paths : ApiNavigate(path)

SpecApi == ApiInit /\ [][ApiNext]_vars

\* The fetchAPI calls (register's included) that a step starts, and the one
\* it ends.
NewFetchCalls ==
    {c \in BagToSet(api'.calls) : /\ c.fn \in {"fetchAPI", "register"}
                                  /\ c.phase = "sent"
                                  /\ CopiesIn(c, api'.calls) > CopiesIn(c, api.calls)}
EndedFetchCalls ==
    {c \in BagToSet(api.calls) : /\ c.fn \in {"fetchAPI", "register"}
                                 /\ api'.calls = api.calls (-) SetToBag({c})}

\* C24: a fetchAPI call that ends on a 401 response removes the token and
\* the stored user, sends the browser to /login unless it is on /login or
\* /register, and rejects; one that ends on any other response that is not
\* OK rejects and leaves token, user and page as they were; and a call goes
\* out with the Authorization header exactly when a token is stored and
\* skipAuth is not set.
C24_UnauthorizedClearsSession ==
    [][/\ \A c \in EndedFetchCalls :
             /\ c.reply.status = 401 =>
                   /\ authToken' = Null
                   /\ storedUser' = Null
                   /\ pathname' = IF pathname \in {LoginPage, "/register"}
                                  THEN pathname ELSE LoginPage
                   /\ api'.last.outcome = "rejected"
             /\ (~ResponseOk(c.reply) /\ c.reply.status # 401) =>
                   /\ api'.last.outcome = "rejected"
                   /\ UNCHANGED sessionVars
       /\ \A c \in NewFetchCalls :
             (c.authorization # Null) <=> (authToken # Null /\ ~c.skipAuth)
      ]_vars

\* C24 witness: a call that carried the token was answered 401 away from the
\* login page; the session is gone and the browser is on /login.
C24_ExpiredTokenLeavesPage ==
    /\ api.last.fn = "fetchAPI"
    /\ api.last.status = 401
    /\ api.last.authorization = Some(<<"Bearer", "token">>)
    /\ api.last.outcome = "rejected"
    /\ authToken = Null
    /\ pathname = LoginPage

\* C30: a stored user is present only if a token is present too.
C30_UserOnlyWithToken == storedUser # Null => authToken # Null

\* C30 witness: getStoredUser has removed a user item that did not parse,
\* and the token stored with it is still there.
C30_TokenOutlivesUser ==
    /\ api.last.fn = "getStoredUser"
    /\ authToken # Null
    /\ storedUser = Null

(***************************************************************************)
(* StravaActivitiesPanel: the list of activities, its filter and its pages.*)
(* fetchActivities runs in the effect of [activityType, page] and in       *)
(* handleRefresh; nothing orders or cancels the requests in flight.        *)
(***************************************************************************)
MaxActivities == 12
MaxPanelRequests == 3

pageSize == 10
ActivitiesLimit == 100

\* The activities the backend holds: three runs, the rest rides.
ServerActivities ==
    [i \in 1..MaxActivities |->
        [id |-> i, activity_type |-> IF i <= 3 THEN "Run" ELSE "Ride"]]

Min(a, b) == IF a <= b THEN a ELSE b
Max(a, b) == IF a >= b THEN a ELSE b

\* Array.prototype.slice(from, to)
Slice(list, from, to) ==
    IF from >= Min(to, Len(list)) THEN <<>>
    ELSE SubSeq(list, from + 1, Min(to, Len(list)))

\* Math.ceil(activities.length / pageSize)
TotalPages(list) == (Len(list) + pageSize - 1) \div pageSize

\* activities.slice(page * pageSize, (page + 1) * pageSize)
PaginatedActivities(list, page) == Slice(list, page * pageSize, (page + 1) * pageSize)

UniqueActivityTypes(list) == {list[i].activity_type : i \in 1..Len(list)}

PanelConstructed ==
    [activities |-> <<>>, loading |-> TRUE, refreshing |-> FALSE, error |-> Null,
     page |-> 0, totalCount |-> 0, activityType |-> Null, mounted |-> FALSE,
     fetches |-> EmptyBag]

\* The panel is on screen with its controls (not the spinner).
PanelRendered == panel.mounted /\ ~(panel.loading /\ Len(panel.activities) = 0)
PagerShown == PanelRendered /\ TotalPages(panel.activities) > 1

PanelFrame ==
    UNCHANGED <<sessionVars, urlCode, garmin, strava, net, server, submitted, last,
                health, dash, form, auth, api, pace, trend>>

\* fetchActivities up to its await, n times, with the filter of the render
\* that runs it.
FetchActivitiesStarted(p, type, n) ==
    IF n = 0 THEN p
    ELSE [p EXCEPT !.loading = TRUE, !.error = Null,
                   !.fetches = @ (+) [f \in {[activityType |-> type, phase |-> "sent",
                                              ok |-> FALSE, activities |-> <<>>]} |-> n]]

CanFetchActivities(n) == BagCardinality(panel.fetches) + n <= MaxPanelRequests

\* The effect of [activityType, page] runs when one of the two has changed.
EffectRuns(p, q) == IF p.activityType # q.activityType \/ p.page # q.page THEN 1 ELSE 0

PanelMount ==
    /\ ~panel.mounted
    /\ CanFetchActivities(1)
    /\ panel' = FetchActivitiesStarted([panel EXCEPT !.mounted = TRUE], Null, 1)
    /\ PanelFrame

\* handleRefresh: fetchActivities of this render, and the effect's when the
\* page was not the first.
handleRefresh ==
    /\ PanelRendered
    /\ ~panel.refreshing
    /\ LET q == [panel EXCEPT !.refreshing = TRUE, !.page = 0] IN
         /\ CanFetchActivities(1 + EffectRuns(panel, q))
         /\ panel' = FetchActivitiesStarted(
                        FetchActivitiesStarted(q, panel.activityType, 1),
                        q.activityType, EffectRuns(panel, q))
    /\ PanelFrame

\* The badge `All`, and the badge of a type.
ClickAll ==
    /\ PanelRendered
    /\ UniqueActivityTypes(panel.activities) # {}
    /\ LET q == [panel EXCEPT !.activityType = Null] IN
         /\ CanFetchActivities(EffectRuns(panel, q))
         /\ panel' = FetchActivitiesStarted(q, q.activityType, EffectRuns(panel, q))
    /\ PanelFrame

ClickType(type) ==
    /\ PanelRendered
    /\ type \in UniqueActivityTypes(panel.activities)
    /\ LET q == [panel EXCEPT !.activityType = Some(type), !.page = 0] IN
         /\ CanFetchActivities(EffectRuns(panel, q))
         /\ panel' = FetchActivitiesStarted(q, q.activityType, EffectRuns(panel, q))
    /\ PanelFrame

\* The two buttons of the pager.
PreviousPage ==
    /\ PagerShown
    /\ ~(panel.page = 0 \/ panel.refreshing)
    /\ LET q == [panel EXCEPT !.page = Max(0, panel.page - 1)] IN
         /\ CanFetchActivities(EffectRuns(panel, q))
         /\ panel' = FetchActivitiesStarted(q, q.activityType, EffectRuns(panel, q))
    /\ PanelFrame

NextPage ==
    /\ PagerShown
    /\ ~(panel.page = TotalPages(panel.activities) - 1 \/ panel.refreshing)
    /\ LET q == [panel EXCEPT
                   !.page = Min(TotalPages(panel.activities) - 1, panel.page + 1)] IN
         /\ CanFetchActivities(EffectRuns(panel, q))
         /\ panel' = FetchActivitiesStarted(q, q.activityType, EffectRuns(panel, q))
    /\ PanelFrame

\* GET /strava/activities?limit=100[&activity_type=...]
Filtered(type) ==
    LET Keep(a) == type = Null \/ a.activity_type = type[1]
    IN  Slice(SelectSeq(ServerActivities, Keep), 0, ActivitiesLimit)

ServerActivitiesReply(f, ok) ==
    /\ f \in BagToSet(panel.fetches)
    /\ f.phase = "sent"
    /\ panel' = [panel EXCEPT !.fetches = (@ (-) SetToBag({f})) (+)
                    SetToBag({[f EXCEPT !.phase = "replied", !.ok = ok,
                                        !.activities = IF ok THEN Filtered(f.activityType)
                                                       ELSE <<>>]})]
    /\ PanelFrame

\* The rest of fetchActivities.
FetchActivitiesResponse(f) ==
    /\ f \in BagToSet(panel.fetches)
    /\ f.phase = "replied"
    /\ LET p == [panel EXCEPT !.fetches = @ (-) SetToBag({f}),
                              !.loading = FALSE, !.refreshing = FALSE] IN
         panel' = IF f.ok
                  THEN [p EXCEPT !.activities = f.activities,
                                 !.totalCount = Len(f.activities)]
                  ELSE [p EXCEPT !.error = Some("Failed to load activities")]
    /\ PanelFrame

PanelInit ==
    /\ pathname = "/"
    /\ LoggedIn
    /\ urlCode = Null
    /\ garmin = GarminConstructed
    /\ strava = StravaConstructed
    /\ net = EmptyBag
    /\ server = ServerInit
    /\ submitted = 0
    /\ last = Step("construct", NoRequest)
    /\ health = Null
    /\ dash = Null
    /\ form = Null
    /\ auth = Null
    /\ api = Null
    /\ panel = PanelConstructed
    /\ pace = Null
    /\ trend = Null

PanelNext ==
    \/ PanelMount
    \/ handleRefresh
    \/ ClickAll
    \/ \E type \in {"Run", "Ride"} : ClickType(type)
    \/ PreviousPage
    \/ NextPage
    \/ \E f \in BagToSet(panel.fetches), ok \in BOOLEAN : ServerActivitiesReply(f, ok)
    \/ \E f \in BagToSet(panel.fetches) : FetchActivitiesResponse(f)

SpecPanel == PanelInit /\ [][PanelNext]_vars

\* The ids of the activities of a list.
IdsOf(list) == {list[i].id : i \in 1..Len(list)}

\* C27: the current page is one of the pages of the loaded list
\* (0 <= page < max(1, totalPages)); every page shows at most pageSize
\* activities, and the pages together show every loaded activity once.
C27_PageIndexesExistingPage ==
    /\ panel.page >= 0
    /\ panel.page < Max(1, TotalPages(panel.activities))
    /\ \A k \in 0..(TotalPages(panel.activities) - 1) :
          Len(PaginatedActivities(panel.activities, k)) <= pageSize
    /\ \A i \in 1..Len(panel.activities) :
          Cardinality({k \in 0..(TotalPages(panel.activities) - 1) :
                         panel.activities[i].id \in
                            IdsOf(PaginatedActivities(panel.activities, k))}) = 1

(***************************************************************************)
(* formatPace of StravaActivitiesPanel and of its detail view (the same    *)
(* code twice).  Distances are whole metres, times whole seconds; the      *)
(* quotients of the code are computed exactly.                             *)
(***************************************************************************)
Distances == {Null, Some(0), Some(1), Some(400), Some(1000), Some(3000), Some(5000),
              Some(10000)}
MovingTimes == {Null, Some(0), Some(1), Some(59), Some(299), Some(1800), Some(3599),
                Some(5999)}

\* `!activity.distance_meters`: null and 0 are falsy.
Falsy(n) == n = Null \/ n = Some(0)

\* seconds.toString().padStart(2, '0')
PadStart2(n) == IF n < 10 THEN <<"0", ToString(n)>> ELSE <<ToString(n)>>

\* pace = moving_time_seconds / (distance_meters / 1000), as the fraction
\* 1000 t / d; Math.floor(pace); Math.round((pace - minutes) * 60), which
\* rounds a half up.
formatPace(activity) ==
    IF Falsy(activity.distance_meters) \/ Falsy(activity.moving_time_seconds)
    THEN <<"--">>
    ELSE LET t == activity.moving_time_seconds[1]
             d == activity.distance_meters[1]
             minutes == (1000 * t) \div d
             seconds == (2 * 60 * ((1000 * t) % d) + d) \div (2 * d)
         IN  <<ToString(minutes), ":">> \o PadStart2(seconds) \o <<" /km">>

PaceFrame ==
    UNCHANGED <<sessionVars, urlCode, garmin, strava, net, server, submitted, last,
                health, dash, form, auth, api, panel, trend>>

\* An activity is rendered: its pace is formatted.
RenderPace ==
    /\ pace.text = Null
    /\ pace' = [pace EXCEPT !.text = Some(formatPace(pace.activity))]
    /\ PaceFrame

\* Another activity is given to the component.
NextActivity(d, t) ==
    /\ pace.text # Null
    /\ pace' = [activity |-> [distance_meters |-> d, moving_time_seconds |-> t],
                text |-> Null]
    /\ PaceFrame

PaceInit ==
    /\ pathname = "/"
    /\ LoggedIn
    /\ urlCode = Null
    /\ garmin = GarminConstructed
    /\ strava = StravaConstructed
    /\ net = EmptyBag
    /\ server = ServerInit
    /\ submitted = 0
    /\ last = Step("construct", NoRequest)
    /\ health = Null
    /\ dash = Null
    /\ form = Null
    /\ auth = Null
    /\ api = Null
    /\ panel = Null
    /\ \E d \in Distances, t \in MovingTimes :
          pace = [activity |-> [distance_meters |-> d, moving_time_seconds |-> t],
                  text |-> Null]
    /\ trend = Null

PaceNext ==
    \/ RenderPace
    \/ \E d \in Distances, t \in MovingTimes : NextActivity(d, t)

SpecPace == PaceInit /\ [][PaceNext]_vars

\* The pace of an activity in whole seconds per kilometre, and the text of
\* m minutes and s seconds.
SecondsPerKm(activity) ==
    (1000 * activity.moving_time_seconds[1]) \div activity.distance_meters[1]
PaceText(m, s) == <<ToString(m), ":">> \o PadStart2(s) \o <<" /km">>

\* C28: the text shown for an activity with a distance and a moving time is
\* `m:ss /km` with m the whole minutes of its pace (t * 1000 / d seconds per
\* kilometre) and ss within 00..59, as 6:00 /km for 1800 s over 5000 m; the
\* text shown for an activity without a distance or a moving time, or with a
\* zero one, is `--`.
C28_PaceInMinutesAndSeconds ==
    pace.text # Null =>
        IF Falsy(pace.activity.distance_meters) \/ Falsy(pace.activity.moving_time_seconds)
        THEN pace.text = Some(<<"--">>)
        ELSE \E s \in 0..59 :
                pace.text = Some(PaceText(SecondsPerKm(pace.activity) \div 60, s))

(***************************************************************************)
(* TrendsCard: the week-over-week change of a metric (sleep_hours here).   *)
(* trends.data is the list of days the backend returns, the most recent    *)
(* day first (getTrendLine takes slice(0, count) as the recent days).  An  *)
(* average is the exact fraction sum / n.                                  *)
(***************************************************************************)
MaxWeeks == 3

SleepValues == {Null, Some(0), Some(6), Some(8)}

\* Seven days: the same value every day, or one value in the week.
Weeks ==
    {[i \in 1..7 |-> v] : v \in SleepValues} \cup
    {[i \in 1..7 |-> IF i = 1 THEN Some(8) ELSE Null]}

RECURSIVE SeriesOf(_)
SeriesOf(n) ==
    IF n = 0 THEN {<<>>}
    ELSE SeriesOf(n - 1) \cup
         {s \o w : s \in {x \in SeriesOf(n - 1) : Len(x) = 7 * (n - 1)}, w \in Weeks}

\* values.reduce((a, b) => a + b, 0) / values.length over the values that
\* are not null; null when there is none.
RECURSIVE SumOf(_)
SumOf(values) ==
    IF values = <<>> THEN 0
    ELSE (IF Head(values) = Null THEN 0 ELSE Head(values)[1]) + SumOf(Tail(values))

Average(values) ==
    LET given == SelectSeq(values, LAMBDA v : v # Null)
    IN  IF Len(given) > 0 THEN Some([sum |-> SumOf(given), n |-> Len(given)]) ELSE Null

calculateWeeklyAverage(data) ==
    IF Len(data) = 0 THEN Null ELSE Average(data)

calculatePreviousWeekAverage(data) ==
    IF Len(data) < 14 THEN Null ELSE Average(Slice(data, 7, 14))

\* MetricTrendItem: changePercent = (currentValue - previousValue) /
\* previousValue * 100, as a fraction.
ChangePercent(currentValue, previousValue) ==
    IF currentValue # Null /\ previousValue # Null /\ previousValue[1].sum # 0
    THEN Some([num |-> 100 * (currentValue[1].sum * previousValue[1].n
                              - previousValue[1].sum * currentValue[1].n),
               den |-> previousValue[1].sum * currentValue[1].n])
    ELSE Null

TrendsShown(data) ==
    [currentValue |-> calculateWeeklyAverage(data),
     previousValue |-> calculatePreviousWeekAverage(data),
     changePercent |-> ChangePercent(calculateWeeklyAverage(data),
                                     calculatePreviousWeekAverage(data))]

TrendFrame ==
    UNCHANGED <<sessionVars, urlCode, garmin, strava, net, server, submitted, last,
                health, dash, form, auth, api, panel, pace>>

\* The card is rendered with the trends it was given.
RenderTrends ==
    /\ trend.shown = Null
    /\ trend' = [trend EXCEPT !.shown = Some(TrendsShown(trend.data))]
    /\ TrendFrame

\* The dashboard hands the card the trends of another fetch.
NextTrends(data) ==
    /\ trend.shown # Null
    /\ trend' = [data |-> data, shown |-> Null]
    /\ TrendFrame

TrendInit ==
    /\ pathname = "/"
    /\ LoggedIn
    /\ urlCode = Null
    /\ garmin = GarminConstructed
    /\ strava = StravaConstructed
    /\ net = EmptyBag
    /\ server = ServerInit
    /\ submitted = 0
    /\ last = Step("construct", NoRequest)
    /\ health = Null
    /\ dash = Null
    /\ form = Null
    /\ auth = Null
    /\ api = Null
    /\ panel = Null
    /\ pace = Null
    /\ \E data \in SeriesOf(MaxWeeks) : trend = [data |-> data, shown |-> Null]

TrendNext ==
    \/ RenderTrends
    \/ \E data \in SeriesOf(MaxWeeks) : NextTrends(data)

SpecTrend == TrendInit /\ [][TrendNext]_vars

\* Two averages are the same number.
SameAverage(a, b) ==
    IF a = Null \/ b = Null THEN a = b
    ELSE a[1].sum * b[1].n = b[1].sum * a[1].n

\* C29: the current value is the average of the values given for the 7 most
\* recent days, the previous value (with 14 days or more) the average over
\* the 7 days before them, and a change percentage is shown exactly when
\* both exist and the previous one is not zero.
C29_TwoDisjointWeeks ==
    trend.shown # Null =>
        LET current == Average(Slice(trend.data, 0, 7))
            previous == Average(Slice(trend.data, 7, 14))
        IN  /\ SameAverage(trend.shown[1].currentValue, current)
            /\ Len(trend.data) >= 14 =>
                  SameAverage(trend.shown[1].previousValue, previous)
            /\ (trend.shown[1].changePercent # Null) <=>
                  /\ trend.shown[1].currentValue # Null
                  /\ trend.shown[1].previousValue # Null
                  /\ trend.shown[1].previousValue[1].sum # 0

(***************************************************************************)
(* Toggles of the cards and the set the backend stores                     *)
(***************************************************************************)
\* C22: once no request of the dashboard is in flight (no PUT of the hidden
\* cards, no fetchData), the hidden cards of the loaded page are the set the
\* backend stores.
C22_SettledPageShowsStoredSet ==
    (/\ dash.mounted
     /\ dash.writes = EmptyBag
     /\ dash.fetches = EmptyBag
     /\ ~dash.loading
     /\ dash.error = Null) =>
        Range(dash.hiddenCards) = Range(ParseHiddenCards(dash.hidden_cards))

====
